---- MODULE Spec2Model ----
(***************************************************************************)
(* A model of scripts/generate.py: the scraper that turns the EC2, RDS and *)
(* ElastiCache documentation tables into per-entity records, per-family    *)
(* groups, manifests and a TypeScript type-definition document.            *)
(*                                                                         *)
(* Text is modelled as a sequence of one-character strings, so that the    *)
(* regular expressions, splits and comparisons of the source are computed  *)
(* character by character.                                                 *)
(***************************************************************************)
EXTENDS Integers, Sequences, FiniteSets, TLC

VARIABLES
    arg,    \* the argument handed to the function under study
    res,    \* the value it returned
    fn,     \* which call has been made so far
    pc,     \* the statement of main() that runs next
    cat,    \* the index in EC2_CATEGORIES of the category page to fetch next
    listed, \* how many pages that list an entity have been fetched
    all_ec2_instances,      \* main's dict of the same name: <<key, InstanceDetails>> in insertion order
    ec2_families,           \* dict family name -> FamilyData
    all_rds_instances,      \* dict instance class -> RDSInstanceDetails
    rds_families,           \* dict family name -> RDSFamilyData
    all_elasticache_nodes,  \* dict node type -> ElastiCacheNodeDetails
    elasticache_families,   \* dict family name -> ElastiCacheFamilyData
    disk    \* the output tree: which artifacts were written, and their content

fvars == <<arg, res, fn>>

mvars == <<pc, cat, listed, all_ec2_instances, ec2_families, all_rds_instances, rds_families,
           all_elasticache_nodes, elasticache_families, disk>>

vars == <<fvars, mvars>>

(***************************************************************************)
(* Characters and strings                                                  *)
(***************************************************************************)

\* The printable ASCII characters in code order; Ascii[i] has code 31 + i.
\* (the double quote, the backslash and the back quote, which no table text of the model holds,
\* are written by name).
Ascii ==
    << " ", "!", "dquote", "#", "$", "%", "&", "'", "(", ")", "*", "+", ",", "-", ".", "/",
       "0", "1", "2", "3", "4", "5", "6", "7", "8", "9", ":", ";", "<", "=", ">", "?",
       "@", "A", "B", "C", "D", "E", "F", "G", "H", "I", "J", "K", "L", "M", "N", "O",
       "P", "Q", "R", "S", "T", "U", "V", "W", "X", "Y", "Z", "[", "bslash", "]", "^", "_",
       "bquote", "a", "b", "c", "d", "e", "f", "g", "h", "i", "j", "k", "l", "m", "n", "o",
       "p", "q", "r", "s", "t", "u", "v", "w", "x", "y", "z", "{", "|", "}", "~" >>

Char == {Ascii[i] : i \in 1..Len(Ascii)}

\* ord(c)
OrdMap == [c \in Char |-> 31 + (CHOOSE i \in 1..Len(Ascii) : Ascii[i] = c)]

Ord(c) == OrdMap[c]

Chr(n) == Ascii[n - 31]

Digits == {"0", "1", "2", "3", "4", "5", "6", "7", "8", "9"}

IsDigit(c) == c \in Digits

IsUpperChar(c) == Ord(c) >= 65 /\ Ord(c) <= 90

IsLowerChar(c) == Ord(c) >= 97 /\ Ord(c) <= 122

\* the regular expression class \w on ASCII text
IsWordChar(c) == IsDigit(c) \/ IsUpperChar(c) \/ IsLowerChar(c) \/ c = "_"

\* the regular expression class \s on cleaned text (clean_text leaves only " ")
IsSpace(c) == c = " "

UpperChar(c) == IF IsLowerChar(c) THEN Chr(Ord(c) - 32) ELSE c

LowerChar(c) == IF IsUpperChar(c) THEN Chr(Ord(c) + 32) ELSE c

\* str.lower()
Lower(s) == [i \in 1..Len(s) |-> LowerChar(s[i])]

\* s[i:] of Python, written with 1-based i: the text from position i on
From(s, i) == SubSeq(s, i, Len(s))

AllDigits(s) == \A i \in 1..Len(s) : IsDigit(s[i])

\* str.startswith(p)
StartsWith(s, p) == Len(p) <= Len(s) /\ SubSeq(s, 1, Len(p)) = p

EndsWith(s, p) == Len(p) <= Len(s) /\ SubSeq(s, Len(s) - Len(p) + 1, Len(s)) = p

\* p occurs in s at position i
OccursAt(s, p, i) == i >= 1 /\ i + Len(p) - 1 <= Len(s) /\ SubSeq(s, i, i + Len(p) - 1) = p

\* "p in s"
Contains(s, p) == \E i \in 1..(Len(s) + 1) : OccursAt(s, p, i)

\* the positions of character c in s
Positions(s, c) == {i \in 1..Len(s) : s[i] = c}

Min(S) == CHOOSE x \in S : \A y \in S : x <= y

Max(S) == CHOOSE x \in S : \A y \in S : x >= y

RECURSIVE Split(_, _)
\* str.split(c) for a one-character separator
Split(s, c) ==
    IF Positions(s, c) = {} THEN <<s>>
    ELSE LET i == Min(Positions(s, c))
         IN  <<SubSeq(s, 1, i - 1)>> \o Split(From(s, i + 1), c)

\* the number of leading / trailing blanks
LeadingSpaces(s) ==
    IF \A i \in 1..Len(s) : IsSpace(s[i]) THEN Len(s)
    ELSE Min({i \in 1..Len(s) : ~IsSpace(s[i])}) - 1

TrailingSpaces(s) ==
    IF \A i \in 1..Len(s) : IsSpace(s[i]) THEN Len(s)
    ELSE Len(s) - Max({i \in 1..Len(s) : ~IsSpace(s[i])})

\* str.strip()
Strip(s) ==
    IF LeadingSpaces(s) = Len(s) THEN <<>>
    ELSE SubSeq(s, LeadingSpaces(s) + 1, Len(s) - TrailingSpaces(s))

\* the number of trailing digits of s
TrailingDigits(s) ==
    IF AllDigits(s) THEN Len(s)
    ELSE Len(s) - Max({i \in 1..Len(s) : ~IsDigit(s[i])})

RECURSIVE Concat(_)
\* "".join(parts)
Concat(parts) ==
    IF parts = <<>> THEN <<>> ELSE Head(parts) \o Concat(Tail(parts))

\* a < b in the code-point order Python compares strings by
StrLess(a, b) ==
    \E i \in 1..(Len(a) + 1) :
        /\ i <= Len(b)
        /\ SubSeq(a, 1, i - 1) = SubSeq(b, 1, i - 1)
        /\ (i = Len(a) + 1 \/ Ord(a[i]) < Ord(b[i]))

(***************************************************************************)
(* Numbers and loosely-typed values                                        *)
(***************************************************************************)

DigitVal(c) == Ord(c) - 48

RECURSIVE NatOf(_)
\* the value of a digit string ("" counts 0)
NatOf(ds) ==
    IF ds = <<>> THEN 0
    ELSE 10 * NatOf(SubSeq(ds, 1, Len(ds) - 1)) + DigitVal(ds[Len(ds)])

\* Python's digit part: digits, with single underscores between digits allowed
IsDigitPart(s) ==
    /\ Len(s) > 0
    /\ IsDigit(s[1])
    /\ IsDigit(s[Len(s)])
    /\ \A i \in 1..Len(s) : IsDigit(s[i]) \/ s[i] = "_"
    /\ \A i \in 1..(Len(s) - 1) : ~(s[i] = "_" /\ s[i + 1] = "_")

DigitsOf(s) == SelectSeq(s, IsDigit)

HasSign(s) == Len(s) > 0 /\ s[1] \in {"+", "-"}

\* the numeral without blanks around it and without its sign
Unsigned(s) == IF HasSign(Strip(s)) THEN Tail(Strip(s)) ELSE Strip(s)

SignOf(s) == IF HasSign(Strip(s)) /\ Strip(s)[1] = "-" THEN -1 ELSE 1

\* int(text) does not raise ValueError
PyIntOk(s) == IsDigitPart(Unsigned(s))

\* int(text)
PyInt(s) == SignOf(s) * NatOf(DigitsOf(Unsigned(s)))

\* A float is kept exactly, as m / 10^d with no trailing zero in the fraction.
RECURSIVE Norm(_, _)
Norm(m, d) ==
    IF d > 0 /\ m % 10 = 0 THEN Norm(m \div 10, d - 1)
    ELSE [none |-> FALSE, m |-> m, d |-> d]

NoneNum == [none |-> TRUE, m |-> 0, d |-> 0]

IntPart(u) == IF Positions(u, ".") = {} THEN u ELSE SubSeq(u, 1, Min(Positions(u, ".")) - 1)

FracPart(u) == IF Positions(u, ".") = {} THEN <<>> ELSE From(u, Min(Positions(u, ".")) + 1)

\* float(text) does not raise ValueError (decimal numerals; the texts of the
\* model spell no exponent, infinity or nan)
PyFloatOk(s) ==
    LET u == Unsigned(s)
    IN  /\ Cardinality(Positions(u, ".")) <= 1
        /\ IntPart(u) = <<>> \/ IsDigitPart(IntPart(u))
        /\ FracPart(u) = <<>> \/ IsDigitPart(FracPart(u))
        /\ IntPart(u) # <<>> \/ FracPart(u) # <<>>

\* float(text)
PyFloat(s) ==
    LET u == Unsigned(s)
    IN  Norm(SignOf(s) * NatOf(DigitsOf(IntPart(u)) \o DigitsOf(FracPart(u))),
             Len(DigitsOf(FracPart(u))))

\* A loosely-typed value (what a RawRow holds): k names the Python type, and
\* the other fields hold the str, the bool/int/float or the list of str.
VStr(s) == [k |-> "str", s |-> s, n |-> 0, d |-> 0, l |-> <<>>]

VBool(b) == [k |-> "bool", s |-> <<>>, n |-> IF b THEN 1 ELSE 0, d |-> 0, l |-> <<>>]

VInt(n) == [k |-> "int", s |-> <<>>, n |-> n, d |-> 0, l |-> <<>>]

VFloat(x) == [k |-> "float", s |-> <<>>, n |-> x.m, d |-> x.d, l |-> <<>>]

VList(l) == [k |-> "list", s |-> <<>>, n |-> 0, d |-> 0, l |-> l]

VNone == [k |-> "none", s |-> <<>>, n |-> 0, d |-> 0, l |-> <<>>]

IsStr(v) == v.k = "str"

\* isinstance(v, (int, float)): a bool is an int
IsNumber(v) == v.k \in {"bool", "int", "float"}

\* float(v) of a number
NumOf(v) == Norm(v.n, v.d)

\* Python's truth value of v
Truthy(v) ==
    CASE v.k = "str" -> v.s # <<>>
      [] v.k = "list" -> v.l # <<>>
      [] v.k = "none" -> FALSE
      [] OTHER -> v.n # 0

(***************************************************************************)
(* Text Normalizer                                                         *)
(***************************************************************************)

\* white space of raw markup, named where it has no printable form
RawSpace == {" ", "tab", "nl"}

RECURSIVE CollapseSpace(_)
\* re.sub(r"\s+", " ", text)
CollapseSpace(s) ==
    IF s = <<>> THEN <<>>
    ELSE IF Head(s) \in RawSpace
         THEN <<" ">> \o CollapseSpace(From(s, Min({i \in 1..(Len(s) + 1) :
                                   i = Len(s) + 1 \/ s[i] \notin RawSpace})))
         ELSE <<Head(s)>> \o CollapseSpace(Tail(s))

IsAsciiChar(c) == c \in Char \/ c \in RawSpace

\* clean_text: drop what is not ASCII, collapse white space, trim
clean_text(text) == Strip(CollapseSpace(SelectSeq(text, IsAsciiChar)))

Xlarge == <<"x", "l", "a", "r", "g", "e">>

Metal == <<"m", "e", "t", "a", "l">>

SizeWords ==
    { <<"n", "a", "n", "o">>, <<"m", "i", "c", "r", "o">>, <<"s", "m", "a", "l", "l">>,
      <<"m", "e", "d", "i", "u", "m">>, <<"l", "a", "r", "g", "e">> }

\* g matches (\d*xlarge|metal(?:-\d+xl)?|nano|micro|small|medium|large) as a whole
IsSizeGroup(g) ==
    \/ EndsWith(g, Xlarge) /\ AllDigits(SubSeq(g, 1, Len(g) - Len(Xlarge)))
    \/ g = Metal
    \/ /\ StartsWith(g, Metal \o <<"-">>)
       /\ EndsWith(g, <<"x", "l">>)
       /\ Len(g) > Len(Metal) + 3
       /\ AllDigits(SubSeq(g, Len(Metal) + 2, Len(g) - 2))
    \/ g \in SizeWords

\* the pattern (group)\d+$ matches s from position p on, the group ending at q
FootnoteMatch(s, p, q) ==
    /\ p <= q /\ q < Len(s)
    /\ IsSizeGroup(SubSeq(s, p, q))
    /\ AllDigits(From(s, q + 1))

FootnoteStarts(s) == {p \in 1..Len(s) : \E q \in p..Len(s) : FootnoteMatch(s, p, q)}

\* clean_instance_type with the pattern's \d+ written \d: one digit is removed
clean_instance_type_one_digit(instance_type) ==
    IF FootnoteStarts(instance_type) = {} THEN instance_type
    ELSE SubSeq(instance_type, 1, Len(instance_type) - 1)

\* clean_instance_type: re.sub(r"(...)\d+$", r"\1", s), the leftmost match replaced
clean_instance_type(instance_type) ==
    IF FootnoteStarts(instance_type) = {} THEN instance_type
    ELSE LET p == Min(FootnoteStarts(instance_type))
             q == CHOOSE q \in p..Len(instance_type) : FootnoteMatch(instance_type, p, q)
         IN  SubSeq(instance_type, 1, q)

\* the number of trailing characters of s that are c
TrailingRun(s, c) ==
    IF \A i \in 1..Len(s) : s[i] = c THEN Len(s)
    ELSE Len(s) - Max({i \in 1..Len(s) : s[i] # c})

DropLast(s, n) == SubSeq(s, 1, Len(s) - n)

RStrip(s) == DropLast(s, TrailingSpaces(s))

\* clean_hypervisor: re.sub(r"\s*[*]+\s*$", "", h).strip()
clean_hypervisor(hypervisor) ==
    LET t == RStrip(hypervisor)
    IN  IF TrailingRun(t, "*") = 0 THEN Strip(hypervisor)
        ELSE Strip(DropLast(t, TrailingRun(t, "*")))

\* the positions p of "(" from which \([^)]*\)\s*$ matches t (t has no trailing blank)
ParenStarts(t) ==
    {p \in 1..(Len(t) - 1) :
        /\ t[p] = "(" /\ t[Len(t)] = ")"
        /\ \A i \in (p + 1)..(Len(t) - 1) : t[i] # ")"}

\* clean_single of clean_operating_system
clean_single(val) ==
    LET cleaned == DropLast(val, TrailingDigits(val))
        t == RStrip(cleaned)
    IN  IF ParenStarts(t) = {} THEN Strip(cleaned)
        ELSE Strip(SubSeq(t, 1, Min(ParenStarts(t)) - 1))

\* clean_operating_system: always a list
clean_operating_system(os_value) ==
    IF os_value.k = "str" THEN <<clean_single(os_value.s)>>
    ELSE IF os_value.k = "list"
         THEN [i \in 1..Len(os_value.l) |-> clean_single(os_value.l[i])]
         ELSE <<>>

NotDropped(c) == c \notin {"(", ")", "."}

SlashToUnderscore(s) == [i \in 1..Len(s) |-> IF s[i] = "/" THEN "_" ELSE s[i]]

RECURSIVE CollapseRuns(_, _, _)
\* every maximal run of characters of set S in s replaced by the one character c
CollapseRuns(s, S, c) ==
    IF s = <<>> THEN <<>>
    ELSE IF Head(s) \in S
         THEN <<c>> \o CollapseRuns(From(s, Min({i \in 1..(Len(s) + 1) :
                                   i = Len(s) + 1 \/ s[i] \notin S})), S, c)
         ELSE <<Head(s)>> \o CollapseRuns(Tail(s), S, c)

LeadingRun(s, c) ==
    IF \A i \in 1..Len(s) : s[i] = c THEN Len(s)
    ELSE Min({i \in 1..Len(s) : s[i] # c}) - 1

\* str.strip(c)
StripChar(s, c) ==
    IF LeadingRun(s, c) = Len(s) THEN <<>>
    ELSE SubSeq(s, LeadingRun(s, c) + 1, Len(s) - TrailingRun(s, c))

\* to_snake_case
to_snake_case(text) ==
    LET t1 == SelectSeq(text, NotDropped)
        t2 == SlashToUnderscore(t1)
        t3 == CollapseRuns(t2, {" ", "-"}, "_")
        t4 == Lower(t3)
        t5 == CollapseRuns(t4, {"_"}, "_")
    IN  StripChar(t5, "_")

(***************************************************************************)
(* Value Coercer                                                           *)
(***************************************************************************)

Yes == <<"y", "e", "s">>

No == <<"n", "o">>

\* [item.strip() for item in value.split("|") if item.strip()]
PipeItems(value) ==
    LET parts == Split(value, "|")
        stripped == [i \in 1..Len(parts) |-> Strip(parts[i])]
        NonEmpty(x) == x # <<>>
    IN  SelectSeq(stripped, NonEmpty)

\* parse_basic_value comparing with "yes" and "no" in lower case only
parse_basic_value_exact_case(value) ==
    IF value = <<>> THEN VStr(value)
    ELSE IF value = Yes THEN VBool(TRUE)
    ELSE IF value = No THEN VBool(FALSE)
    ELSE IF Contains(value, <<"|">>) THEN VList(PipeItems(value))
    ELSE IF Contains(value, <<".">>) /\ PyFloatOk(value) THEN VFloat(PyFloat(value))
    ELSE IF ~Contains(value, <<".">>) /\ PyIntOk(value) THEN VInt(PyInt(value))
    ELSE VStr(value)

\* parse_basic_value: the first rule that matches decides
parse_basic_value(value) ==
    IF value = <<>> THEN VStr(value)
    ELSE IF Lower(value) = Yes THEN VBool(TRUE)
    ELSE IF Lower(value) = No THEN VBool(FALSE)
    ELSE IF Contains(value, <<"|">>) THEN VList(PipeItems(value))
    ELSE IF Contains(value, <<".">>) /\ PyFloatOk(value) THEN VFloat(PyFloat(value))
    ELSE IF ~Contains(value, <<".">>) /\ PyIntOk(value) THEN VInt(PyInt(value))
    ELSE VStr(value)

Gigabit == <<"G", "i", "g", "a", "b", "i", "t">>

\* What parse_bandwidth returns: a BandwidthSpec (k = "spec") or the str it was given.
BandwidthSpec(baseline, burst) == [k |-> "spec", s |-> <<>>, baseline |-> baseline, burst |-> burst]

BandwidthText(s) == [k |-> "str", s |-> s, baseline |-> NoneNum, burst |-> NoneNum]

\* parse_bandwidth with a parse failure of a half coerced to zero
parse_bandwidth_zero(value) ==
    IF IsNumber(value) THEN BandwidthSpec(NumOf(value), NoneNum)
    ELSE IF ~IsStr(value) THEN BandwidthSpec(NoneNum, NoneNum)
    ELSE LET parts == Split(value.s, "/")
             Half(i) == IF PyFloatOk(Strip(parts[i])) THEN PyFloat(Strip(parts[i]))
                        ELSE Norm(0, 0)
         IN  IF Contains(value.s, <<"/">>) /\ ~Contains(value.s, Gigabit) /\ Len(parts) = 2
             THEN BandwidthSpec(Half(1), Half(2))
             ELSE BandwidthText(value.s)

\* parse_bandwidth
parse_bandwidth(value) ==
    IF IsNumber(value) THEN BandwidthSpec(NumOf(value), NoneNum)
    ELSE IF ~IsStr(value) THEN BandwidthSpec(NoneNum, NoneNum)
    ELSE LET parts == Split(value.s, "/")
         IN  IF /\ Contains(value.s, <<"/">>)
                /\ ~Contains(value.s, Gigabit)
                /\ Len(parts) = 2
                /\ PyFloatOk(Strip(parts[1]))
                /\ PyFloatOk(Strip(parts[2]))
             THEN BandwidthSpec(PyFloat(Strip(parts[1])), PyFloat(Strip(parts[2])))
             ELSE BandwidthText(value.s)

UpTo == <<"u", "p", " ", "t", "o">>

Based == <<"b", "a", "s", "e", "d">>

Limit == <<"l", "i", "m", "i", "t">>

\* the first position from p on whose character is not in set S (Len(s) + 1 if none)
RunEnd(s, p, S) == Min({i \in p..(Len(s) + 1) : i = Len(s) + 1 \/ s[i] \notin S})

\* p occurs in s at position i, letter case ignored (re.I)
OccursAtCI(s, p, i) == OccursAt(Lower(s), p, i)

WordChars == {c \in Char : IsWordChar(c)}

\* where \s*limit\) ends when it matches s at position q (0 when it does not)
LimitTailEnd(s, q) ==
    LET q2 == RunEnd(s, q, {" "})
    IN  IF OccursAtCI(s, Limit, q2) /\ OccursAt(s, <<")">>, q2 + Len(Limit))
        THEN q2 + Len(Limit) + 1
        ELSE 0

\* where (?:[- ]based)?\s*limit\) ends when it matches s at position q (the
\* optional group is tried first; 0 when neither way matches)
QualifierTailEnd(s, q) ==
    IF /\ q <= Len(s) /\ s[q] \in {"-", " "}
       /\ OccursAtCI(s, Based, q + 1)
       /\ LimitTailEnd(s, q + 1 + Len(Based)) # 0
    THEN LimitTailEnd(s, q + 1 + Len(Based))
    ELSE LimitTailEnd(s, q)

\* where (\d+) starts: after the optional "Up to\s+"
NumberStart(s) ==
    IF OccursAtCI(s, UpTo, 1) /\ RunEnd(s, Len(UpTo) + 1, {" "}) > Len(UpTo) + 1
    THEN RunEnd(s, Len(UpTo) + 1, {" "})
    ELSE 1

\* where "(" stands when (\d+)\s*\( matches
ParenAt(s) == RunEnd(s, RunEnd(s, NumberStart(s), Digits), {" "})

\* the lengths (\w+) can take for the pattern to match at the start of s
WordLengths(s) ==
    {j \in 1..Len(s) :
        /\ RunEnd(s, NumberStart(s), Digits) > NumberStart(s)
        /\ OccursAt(s, <<"(">>, ParenAt(s))
        /\ ParenAt(s) + j < RunEnd(s, ParenAt(s) + 1, WordChars)
        /\ QualifierTailEnd(s, ParenAt(s) + 1 + j) # 0}

\* What parse_volume_limit returns: a VolumeLimitSpec (k = "spec") or its argument.
VolumeLimitSpec(limit, limitType) ==
    [k |-> "spec", limit |-> limit, limitType |-> limitType, val |-> VNone]

VolumeLimitValue(v) == [k |-> "val", limit |-> 0, limitType |-> <<>>, val |-> v]

\* parse_volume_limit: re.match anchors the pattern at the start of the text only
parse_volume_limit(value) ==
    IF ~IsStr(value) THEN VolumeLimitValue(value)
    ELSE IF WordLengths(value.s) = {} THEN VolumeLimitValue(value)
    ELSE LET s == value.s
             j == Max(WordLengths(s))
         IN  VolumeLimitSpec(
                 PyInt(SubSeq(s, NumberStart(s), RunEnd(s, NumberStart(s), Digits) - 1)),
                 Lower(SubSeq(s, ParenAt(s) + 1, ParenAt(s) + j)))

\* parse_iops: (read, write)
parse_iops(value) ==
    IF ~IsStr(value) \/ ~Contains(value.s, <<"/">>)
    THEN IF Truthy(value) THEN <<value, VStr(<<>>)>> ELSE <<VStr(<<>>), VStr(<<>>)>>
    ELSE LET parts == Split(value.s, "/")
         IN  IF Len(parts) = 2
             THEN <<VStr(Strip(parts[1])), VStr(Strip(parts[2]))>>
             ELSE <<value, VStr(<<>>)>>

(***************************************************************************)
(* Family extraction                                                       *)
(***************************************************************************)

\* The outcome of a call that can raise: the value returned, or raised = TRUE.
Return(v) == [raised |-> FALSE, v |-> v]

Raise == [raised |-> TRUE, v |-> <<>>]

\* family_part[:1].upper() + family_part[1:]: a slice of "" is "", no IndexError
Capitalized_slice(family_part) ==
    IF family_part = <<>> THEN Return(<<>>)
    ELSE Return(<<UpperChar(family_part[1])>> \o Tail(family_part))

\* family_part[0].upper() + family_part[1:], an IndexError on ""
Capitalized(family_part) ==
    IF family_part = <<>> THEN Raise
    ELSE Return(<<UpperChar(family_part[1])>> \o Tail(family_part))

\* extract_family_from_instance_type
extract_family_from_instance_type(instance_type) ==
    Capitalized(Split(instance_type, ".")[1])

DbPrefix == <<"d", "b", ".">>

CachePrefix == <<"c", "a", "c", "h", "e", ".">>

\* extract_rds_family
extract_rds_family(instance_class) ==
    IF StartsWith(instance_class, DbPrefix)
    THEN Capitalized(Split(From(instance_class, Len(DbPrefix) + 1), ".")[1])
    ELSE Return(instance_class)

\* extract_elasticache_family
extract_elasticache_family(node_type) ==
    IF StartsWith(node_type, CachePrefix)
    THEN Capitalized(Split(From(node_type, Len(CachePrefix) + 1), ".")[1])
    ELSE Return(node_type)

(***************************************************************************)
(* Table Extractor                                                         *)
(*                                                                         *)
(* A table of a page is [thead |-> the texts of its th cells (<<>> when it *)
(* has no thead), body |-> for every tr, the texts of its td cells].       *)
(* A RawRow (a dict) is a function from header keys to values.              *)
(***************************************************************************)

\* The header keys the code looks up, as texts. (K.baseline_maximum_throughput is
\* "baseline_maximum_throughput_mb_s,_128_kib_i_o", K.random_read_iops_write_iops is
\* "100%_random_read_iops_write_iops" and K.column is the prefix "column_".)
K ==
    [
      instance_family |->
          <<"i", "n", "s", "t", "a", "n", "c", "e", "_", "f", "a", "m", "i", "l", "y">>,
      instance_type |->
          <<"i", "n", "s", "t", "a", "n", "c", "e", "_", "t", "y", "p", "e">>,
      supported_operating_systems |->
          <<"s", "u", "p", "p", "o", "r", "t", "e", "d", "_", "o", "p", "e", "r", "a", "t", "i", "n", "g", "_", "s", "y", "s", "t", "e", "m", "s">>,
      hypervisor |->
          <<"h", "y", "p", "e", "r", "v", "i", "s", "o", "r">>,
      processor_type_architecture |->
          <<"p", "r", "o", "c", "e", "s", "s", "o", "r", "_", "t", "y", "p", "e", "_", "a", "r", "c", "h", "i", "t", "e", "c", "t", "u", "r", "e">>,
      metal_instances_available |->
          <<"m", "e", "t", "a", "l", "_", "i", "n", "s", "t", "a", "n", "c", "e", "s", "_", "a", "v", "a", "i", "l", "a", "b", "l", "e">>,
      dedicated_hosts_support |->
          <<"d", "e", "d", "i", "c", "a", "t", "e", "d", "_", "h", "o", "s", "t", "s", "_", "s", "u", "p", "p", "o", "r", "t">>,
      spot_support |->
          <<"s", "p", "o", "t", "_", "s", "u", "p", "p", "o", "r", "t">>,
      hibernation_support |->
          <<"h", "i", "b", "e", "r", "n", "a", "t", "i", "o", "n", "_", "s", "u", "p", "p", "o", "r", "t">>,
      accelerators |->
          <<"a", "c", "c", "e", "l", "e", "r", "a", "t", "o", "r", "s">>,
      accelerator_memory |->
          <<"a", "c", "c", "e", "l", "e", "r", "a", "t", "o", "r", "_", "m", "e", "m", "o", "r", "y">>,
      memory_gib |->
          <<"m", "e", "m", "o", "r", "y", "_", "g", "i", "b">>,
      processor |->
          <<"p", "r", "o", "c", "e", "s", "s", "o", "r">>,
      vcpus |->
          <<"v", "c", "p", "u", "s">>,
      cpu_cores |->
          <<"c", "p", "u", "_", "c", "o", "r", "e", "s">>,
      threads_per_core |->
          <<"t", "h", "r", "e", "a", "d", "s", "_", "p", "e", "r", "_", "c", "o", "r", "e">>,
      baseline_burst_bandwidth_gbps |->
          <<"b", "a", "s", "e", "l", "i", "n", "e", "_", "b", "u", "r", "s", "t", "_", "b", "a", "n", "d", "w", "i", "d", "t", "h", "_", "g", "b", "p", "s">>,
      efa |->
          <<"e", "f", "a">>,
      ena |->
          <<"e", "n", "a">>,
      ena_express |->
          <<"e", "n", "a", "_", "e", "x", "p", "r", "e", "s", "s">>,
      network_cards |->
          <<"n", "e", "t", "w", "o", "r", "k", "_", "c", "a", "r", "d", "s">>,
      max_network_interfaces |->
          <<"m", "a", "x", "_", "n", "e", "t", "w", "o", "r", "k", "_", "i", "n", "t", "e", "r", "f", "a", "c", "e", "s">>,
      ip_addresses_per_interface |->
          <<"i", "p", "_", "a", "d", "d", "r", "e", "s", "s", "e", "s", "_", "p", "e", "r", "_", "i", "n", "t", "e", "r", "f", "a", "c", "e">>,
      ipv6 |->
          <<"i", "p", "v", "6">>,
      baseline_maximum_bandwidth_mbps |->
          <<"b", "a", "s", "e", "l", "i", "n", "e", "_", "m", "a", "x", "i", "m", "u", "m", "_", "b", "a", "n", "d", "w", "i", "d", "t", "h", "_", "m", "b", "p", "s">>,
      baseline_maximum_throughput |->
          <<"b", "a", "s", "e", "l", "i", "n", "e", "_", "m", "a", "x", "i", "m", "u", "m", "_", "t", "h", "r", "o", "u", "g", "h", "p", "u", "t", "_", "m", "b", "_", "s", ",", "_", "1", "2", "8", "_", "k", "i", "b", "_", "i", "_", "o">>,
      baseline_maximum_iops_16_kib_i_o |->
          <<"b", "a", "s", "e", "l", "i", "n", "e", "_", "m", "a", "x", "i", "m", "u", "m", "_", "i", "o", "p", "s", "_", "1", "6", "_", "k", "i", "b", "_", "i", "_", "o">>,
      nvme |->
          <<"n", "v", "m", "e">>,
      ebs_volume_limit |->
          <<"e", "b", "s", "_", "v", "o", "l", "u", "m", "e", "_", "l", "i", "m", "i", "t">>,
      random_read_iops_write_iops |->
          <<"1", "0", "0", "%", "_", "r", "a", "n", "d", "o", "m", "_", "r", "e", "a", "d", "_", "i", "o", "p", "s", "_", "w", "r", "i", "t", "e", "_", "i", "o", "p", "s">>,
      needs_initialization1 |->
          <<"n", "e", "e", "d", "s", "_", "i", "n", "i", "t", "i", "a", "l", "i", "z", "a", "t", "i", "o", "n", "1">>,
      trim_support2 |->
          <<"t", "r", "i", "m", "_", "s", "u", "p", "p", "o", "r", "t", "2">>,
      instance_store_volumes |->
          <<"i", "n", "s", "t", "a", "n", "c", "e", "_", "s", "t", "o", "r", "e", "_", "v", "o", "l", "u", "m", "e", "s">>,
      instance_store_type |->
          <<"i", "n", "s", "t", "a", "n", "c", "e", "_", "s", "t", "o", "r", "e", "_", "t", "y", "p", "e">>,
      instance_store_encryption |->
          <<"i", "n", "s", "t", "a", "n", "c", "e", "_", "s", "t", "o", "r", "e", "_", "e", "n", "c", "r", "y", "p", "t", "i", "o", "n">>,
      ebs_encryption |->
          <<"e", "b", "s", "_", "e", "n", "c", "r", "y", "p", "t", "i", "o", "n">>,
      encryption_in_transit |->
          <<"e", "n", "c", "r", "y", "p", "t", "i", "o", "n", "_", "i", "n", "_", "t", "r", "a", "n", "s", "i", "t">>,
      amd_sev_snp |->
          <<"a", "m", "d", "_", "s", "e", "v", "_", "s", "n", "p">>,
      nitrotpm |->
          <<"n", "i", "t", "r", "o", "t", "p", "m">>,
      nitro_enclaves |->
          <<"n", "i", "t", "r", "o", "_", "e", "n", "c", "l", "a", "v", "e", "s">>,
      instance_class |->
          <<"i", "n", "s", "t", "a", "n", "c", "e", "_", "c", "l", "a", "s", "s">>,
      vcpu |->
          <<"v", "c", "p", "u">>,
      memory |->
          <<"m", "e", "m", "o", "r", "y">>,
      network_bandwidth_gbps |->
          <<"n", "e", "t", "w", "o", "r", "k", "_", "b", "a", "n", "d", "w", "i", "d", "t", "h", "_", "g", "b", "p", "s">>,
      network_bandwidth |->
          <<"n", "e", "t", "w", "o", "r", "k", "_", "b", "a", "n", "d", "w", "i", "d", "t", "h">>,
      max_ebs_bandwidth_mbps |->
          <<"m", "a", "x", "_", "e", "b", "s", "_", "b", "a", "n", "d", "w", "i", "d", "t", "h", "_", "m", "b", "p", "s">>,
      ebs_bandwidth |->
          <<"e", "b", "s", "_", "b", "a", "n", "d", "w", "i", "d", "t", "h">>,
      node_type |->
          <<"n", "o", "d", "e", "_", "t", "y", "p", "e">>,
      network_performance |->
          <<"n", "e", "t", "w", "o", "r", "k", "_", "p", "e", "r", "f", "o", "r", "m", "a", "n", "c", "e">>,
      baseline_bandwidth_gbps |->
          <<"b", "a", "s", "e", "l", "i", "n", "e", "_", "b", "a", "n", "d", "w", "i", "d", "t", "h", "_", "g", "b", "p", "s">>,
      baseline_gbps |->
          <<"b", "a", "s", "e", "l", "i", "n", "e", "_", "g", "b", "p", "s">>,
      burst_bandwidth_gbps |->
          <<"b", "u", "r", "s", "t", "_", "b", "a", "n", "d", "w", "i", "d", "t", "h", "_", "g", "b", "p", "s">>,
      burst_gbps |->
          <<"b", "u", "r", "s", "t", "_", "g", "b", "p", "s">>,
      column |->
          <<"c", "o", "l", "u", "m", "n", "_">> ]

RECURSIVE NatText(_)
\* str(n)
NatText(n) ==
    IF n < 10 THEN <<Chr(48 + n)>> ELSE NatText(n \div 10) \o <<Chr(48 + (n % 10))>>

\* headers = [to_snake_case(clean_text(th.get_text(strip=True))) ...]
Headers(table) == [i \in 1..Len(table.thead) |-> to_snake_case(clean_text(table.thead[i]))]

\* the key of the i-th cell (i counts from 1): its header, or column_<i-1>
CellKey(headers, i) == IF i <= Len(headers) THEN headers[i] ELSE K.column \o NatText(i - 1)

\* row_data after the loop over the cells: a later cell under the same key wins
RowData(headers, values) ==
    [key \in {CellKey(headers, i) : i \in 1..Len(values)} |->
        values[Max({i \in 1..Len(values) : CellKey(headers, i) = key})]]

\* raw.get(key, default)
Get(raw, key, default) == IF key \in DOMAIN raw THEN raw[key] ELSE default

\* the value parse_table stores for the i-th cell of a row
Ec2CellValue(headers, i, text) ==
    LET value == parse_basic_value(clean_text(text))
    IN  IF i > Len(headers) THEN value
        ELSE IF headers[i] = K.instance_type /\ IsStr(value)
             THEN VStr(clean_instance_type(value.s))
        ELSE IF headers[i] = K.hypervisor /\ IsStr(value)
             THEN VStr(clean_hypervisor(value.s))
        ELSE IF headers[i] = K.supported_operating_systems
             THEN VList(clean_operating_system(value))
        ELSE value

Ec2RowData(table, r) ==
    RowData(Headers(table),
            [i \in 1..Len(table.body[r]) |-> Ec2CellValue(Headers(table), i, table.body[r][i])])

\* the sequence of the numbers in 1..n that satisfy Keep, ascending
Filter(n, Keep(_)) == SelectSeq([i \in 1..n |-> i], Keep)

\* the body rows parse_table appends: "if not cells: continue", then
\* "if row_data and len(row_data) > 1"
parse_table_kept(table) ==
    LET Keep(r) == /\ table.body[r] # <<>>
                   /\ Cardinality(DOMAIN Ec2RowData(table, r)) > 1
    IN  Filter(Len(table.body), Keep)

\* parse_table
parse_table(table) ==
    [j \in 1..Len(parse_table_kept(table)) |-> Ec2RowData(table, parse_table_kept(table)[j])]

\* clean_rds_instance_class: re.sub(r"[*]+$", "", s).strip()
clean_rds_instance_class(instance_class) ==
    Strip(DropLast(instance_class, TrailingRun(instance_class, "*")))

RdsCellValue(headers, i, text) ==
    IF i <= Len(headers) /\ headers[i] = K.instance_class
    THEN VStr(clean_rds_instance_class(clean_text(text)))
    ELSE VStr(clean_text(text))

RdsRowData(table, r) ==
    RowData(Headers(table),
            [i \in 1..Len(table.body[r]) |-> RdsCellValue(Headers(table), i, table.body[r][i])])

\* the body rows parse_rds_table appends: 'if row_data and "instance_class" in row_data'
parse_rds_table_kept(table) ==
    LET Keep(r) == /\ table.body[r] # <<>>
                   /\ K.instance_class \in DOMAIN RdsRowData(table, r)
    IN  Filter(Len(table.body), Keep)

\* parse_rds_table
parse_rds_table(table) ==
    [j \in 1..Len(parse_rds_table_kept(table)) |->
        RdsRowData(table, parse_rds_table_kept(table)[j])]

\* clean_elasticache_node_type
clean_elasticache_node_type(node_type) ==
    Strip(DropLast(node_type, TrailingRun(node_type, "*")))

ElasticacheCellValue(headers, i, text) ==
    IF i <= Len(headers) /\ headers[i] \in {K.node_type, K.instance_type}
    THEN VStr(clean_elasticache_node_type(clean_text(text)))
    ELSE VStr(clean_text(text))

ElasticacheRowData(table, r) ==
    RowData(Headers(table),
            [i \in 1..Len(table.body[r]) |->
                ElasticacheCellValue(Headers(table), i, table.body[r][i])])

\* row_data.get("node_type") or row_data.get("instance_type")
NodeTypeOf(row_data) ==
    IF Truthy(Get(row_data, K.node_type, VNone)) THEN row_data[K.node_type]
    ELSE Get(row_data, K.instance_type, VNone)

\* the body rows parse_elasticache_table appends
parse_elasticache_table_kept(table) ==
    LET Keep(r) == /\ table.body[r] # <<>>
                   /\ Truthy(NodeTypeOf(ElasticacheRowData(table, r)))
                   /\ StartsWith(NodeTypeOf(ElasticacheRowData(table, r)).s, CachePrefix)
    IN  Filter(Len(table.body), Keep)

\* row_data["node_type"] = node_type
WithNodeType(row_data) ==
    [key \in DOMAIN row_data \cup {K.node_type} |->
        IF key = K.node_type THEN NodeTypeOf(row_data) ELSE row_data[key]]

\* parse_elasticache_table
parse_elasticache_table(table) ==
    [j \in 1..Len(parse_elasticache_table_kept(table)) |->
        WithNodeType(ElasticacheRowData(table, parse_elasticache_table_kept(table)[j]))]

\* section_names of parse_category_page, as the index of the table (from 0)
SectionIndex ==
    [instance_family_summary |-> 1, performance_specifications |-> 2,
     network_specifications |-> 3, ebs_specifications |-> 4,
     instance_store_specifications |-> 5, security_specifications |-> 6]

\* parse_category_page: data[section] for each named section, and data["table_<i>"]
\* for tables past the sixth. A section is present only when its table exists and
\* parse_table returned rows; raw_data.get(section, []) reads an absent one as [].
parse_category_page(html) ==
    [sections |->
        [name \in DOMAIN SectionIndex |->
            IF SectionIndex[name] + 1 <= Len(html)
            THEN parse_table(html[SectionIndex[name] + 1])
            ELSE <<>>],
     extra |-> {i \in 7..(Len(html) - 1) : parse_table(html[i + 1]) # <<>>}]

\* parse_rds_page: all_instances.extend(rows) over the tables, in document order
parse_rds_page(html) == Concat([i \in 1..Len(html) |-> parse_rds_table(html[i])])

\* parse_elasticache_page
parse_elasticache_page(html) ==
    Concat([i \in 1..Len(html) |-> parse_elasticache_table(html[i])])

(***************************************************************************)
(* Record Builder: the compute domain                                      *)
(*                                                                         *)
(* A dict is the sequence of its items [key, val] in insertion order.      *)
(***************************************************************************)

DictKeys(d) == [i \in 1..Len(d) |-> d[i].key]

DictHas(d, key) == \E i \in 1..Len(d) : d[i].key = key

\* d[key], for a key of d
DictAt(d, key) == d[CHOOSE i \in 1..Len(d) : d[i].key = key].val

\* d.get(key, default)
DictGet(d, key, default) == IF DictHas(d, key) THEN DictAt(d, key) ELSE default

\* d[key] = val: a key already in d keeps its place
DictPut(d, key, val) ==
    IF DictHas(d, key)
    THEN [i \in 1..Len(d) |-> IF d[i].key = key THEN [key |-> key, val |-> val] ELSE d[i]]
    ELSE Append(d, [key |-> key, val |-> val])

\* d.update(items) for a list of items: an item of a key already in d is appended
DictUpdate_extend(d, items) == d \o items

RECURSIVE DictUpdate(_, _)
\* d.update(items), and the dict built from items when d is empty
DictUpdate(d, items) ==
    IF items = <<>> THEN d
    ELSE DictUpdate(DictPut(d, Head(items).key, Head(items).val), Tail(items))

\* The key object of a dict entry: numbers that compare equal (True, 1, 1.0)
\* are one key.
HashKey(v) == IF IsNumber(v) THEN VFloat(NumOf(v)) ELSE v

\* a list is unhashable: using it as a key raises TypeError
Unhashable(v) == v.k = "list"

\* int(v) raises (ValueError for text that is no integer, TypeError for a list or None)
IntRaises(v) == v.k \in {"list", "none"} \/ (v.k = "str" /\ ~PyIntOk(v.s))

RECURSIVE Pow10(_)
Pow10(d) == IF d = 0 THEN 1 ELSE 10 * Pow10(d - 1)

\* int(v): a float is truncated towards zero
IntOf(v) ==
    IF v.k = "str" THEN PyInt(v.s)
    ELSE IF v.n >= 0 THEN v.n \div Pow10(v.d) ELSE -((-v.n) \div Pow10(v.d))

\* float(v) raises
FloatRaises(v) == v.k \in {"list", "none"} \/ (v.k = "str" /\ ~PyFloatOk(v.s))

\* float(v)
FloatOf(v) == IF v.k = "str" THEN PyFloat(v.s) ELSE NumOf(v)

FamilySummary(hypervisor, processorArchitecture, metalAvailable, dedicatedHosts, spot, hibernation, operatingSystems) ==
    [hypervisor |-> hypervisor, processorArchitecture |-> processorArchitecture,
     metalAvailable |-> metalAvailable, dedicatedHosts |-> dedicatedHosts, spot |-> spot,
     hibernation |-> hibernation, operatingSystems |-> operatingSystems]

\* build_family_summary
build_family_summary(raw) ==
    LET os_value == Get(raw, K.supported_operating_systems, VList(<<>>))
    IN  FamilySummary(
            Get(raw, K.hypervisor, VStr(<<>>)),
            Get(raw, K.processor_type_architecture, VStr(<<>>)),
            Truthy(Get(raw, K.metal_instances_available, VBool(FALSE))),
            Truthy(Get(raw, K.dedicated_hosts_support, VBool(FALSE))),
            Truthy(Get(raw, K.spot_support, VBool(FALSE))),
            Truthy(Get(raw, K.hibernation_support, VBool(FALSE))),
            IF IsStr(os_value) THEN VList(<<os_value.s>>) ELSE os_value)

\* "x is False or x == ''" turns x into None
NoneIfBlank(v) == IF v = VBool(FALSE) \/ v = VStr(<<>>) THEN VNone ELSE v

PerformanceSpec(memoryGiB, processor, vCPUs, cpuCores, threadsPerCore, accelerators, acceleratorMemory) ==
    [memoryGiB |-> memoryGiB, processor |-> processor, vCPUs |-> vCPUs, cpuCores |-> cpuCores,
     threadsPerCore |-> threadsPerCore, accelerators |-> accelerators,
     acceleratorMemory |-> acceleratorMemory]

\* build_performance_spec raises
build_performance_spec_raises(raw) ==
    \/ FloatRaises(Get(raw, K.memory_gib, VInt(0)))
    \/ IntRaises(Get(raw, K.vcpus, VInt(0)))
    \/ IntRaises(Get(raw, K.cpu_cores, VInt(0)))
    \/ IntRaises(Get(raw, K.threads_per_core, VInt(1)))

\* build_performance_spec
build_performance_spec(raw) ==
    PerformanceSpec(
        FloatOf(Get(raw, K.memory_gib, VInt(0))),
        Get(raw, K.processor, VStr(<<>>)),
        IntOf(Get(raw, K.vcpus, VInt(0))),
        IntOf(Get(raw, K.cpu_cores, VInt(0))),
        IntOf(Get(raw, K.threads_per_core, VInt(1))),
        NoneIfBlank(Get(raw, K.accelerators, VNone)),
        NoneIfBlank(Get(raw, K.accelerator_memory, VNone)))

NetworkSpec(bandwidthGbps, efa, ena, enaExpress, networkCards, maxInterfaces, ipv4PerInterface, ipv6) ==
    [bandwidthGbps |-> bandwidthGbps, efa |-> efa, ena |-> ena, enaExpress |-> enaExpress,
     networkCards |-> networkCards, maxInterfaces |-> maxInterfaces,
     ipv4PerInterface |-> ipv4PerInterface, ipv6 |-> ipv6]

build_network_spec_raises(raw) ==
    \/ IntRaises(Get(raw, K.network_cards, VInt(1)))
    \/ IntRaises(Get(raw, K.max_network_interfaces, VInt(1)))
    \/ IntRaises(Get(raw, K.ip_addresses_per_interface, VInt(1)))

\* build_network_spec
build_network_spec(raw) ==
    NetworkSpec(
        parse_bandwidth(Get(raw, K.baseline_burst_bandwidth_gbps, VStr(<<>>))),
        Truthy(Get(raw, K.efa, VBool(FALSE))),
        Get(raw, K.ena, VBool(FALSE)),
        Truthy(Get(raw, K.ena_express, VBool(FALSE))),
        IntOf(Get(raw, K.network_cards, VInt(1))),
        IntOf(Get(raw, K.max_network_interfaces, VInt(1))),
        IntOf(Get(raw, K.ip_addresses_per_interface, VInt(1))),
        Truthy(Get(raw, K.ipv6, VBool(FALSE))))

EBSSpec(bandwidthMbps, throughputMBps, iops, nvme, volumeLimit) ==
    [bandwidthMbps |-> bandwidthMbps, throughputMBps |-> throughputMBps, iops |-> iops,
     nvme |-> nvme, volumeLimit |-> volumeLimit]

\* build_ebs_spec
build_ebs_spec(raw) ==
    EBSSpec(
        parse_bandwidth(Get(raw, K.baseline_maximum_bandwidth_mbps, VStr(<<>>))),
        parse_bandwidth(Get(raw, K.baseline_maximum_throughput, VStr(<<>>))),
        parse_bandwidth(Get(raw, K.baseline_maximum_iops_16_kib_i_o, VStr(<<>>))),
        Truthy(Get(raw, K.nvme, VBool(FALSE))),
        parse_volume_limit(Get(raw, K.ebs_volume_limit, VStr(<<>>))))

\* An InstanceStoreSpec, or None (none = TRUE: instance_store.get(key) found nothing).
InstanceStoreSpec(volumes, storeType, readIOPS, writeIOPS, needsInit, trimSupport) ==
    [none |-> FALSE, volumes |-> volumes, storeType |-> storeType, readIOPS |-> readIOPS,
     writeIOPS |-> writeIOPS, needsInit |-> needsInit, trimSupport |-> trimSupport]

NoInstanceStore ==
    [none |-> TRUE, volumes |-> VNone, storeType |-> VNone, readIOPS |-> VNone,
     writeIOPS |-> VNone, needsInit |-> VNone, trimSupport |-> VNone]

\* build_instance_store_spec (raw is never empty: it has the instance_type key)
build_instance_store_spec(raw) ==
    LET iops == parse_iops(Get(raw, K.random_read_iops_write_iops, VStr(<<>>)))
        Blank(v) == IF v = VStr(<<>>) THEN VNone ELSE v
    IN  InstanceStoreSpec(
            Get(raw, K.instance_store_volumes, VStr(<<>>)),
            Get(raw, K.instance_store_type, VStr(<<>>)),
            iops[1], iops[2],
            Blank(Get(raw, K.needs_initialization1, VNone)),
            Blank(Get(raw, K.trim_support2, VNone)))

SecuritySpec(ebsEncryption, instanceStoreEncryption, encryptionInTransit, amdSEVSNP, nitroTPM, nitroEnclaves) ==
    [ebsEncryption |-> ebsEncryption, instanceStoreEncryption |-> instanceStoreEncryption,
     encryptionInTransit |-> encryptionInTransit, amdSEVSNP |-> amdSEVSNP,
     nitroTPM |-> nitroTPM, nitroEnclaves |-> nitroEnclaves]

NotSupported ==
    <<"I", "n", "s", "t", "a", "n", "c", "e", " ", "s", "t", "o", "r", "e", " ",
      "n", "o", "t", " ", "s", "u", "p", "p", "o", "r", "t", "e", "d">>

\* build_security_spec
build_security_spec(raw) ==
    LET inst_store_enc == Get(raw, K.instance_store_encryption, VNone)
    IN  SecuritySpec(
            Truthy(Get(raw, K.ebs_encryption, VBool(FALSE))),
            IF inst_store_enc = VStr(NotSupported) THEN VNone ELSE inst_store_enc,
            Truthy(Get(raw, K.encryption_in_transit, VBool(FALSE))),
            Truthy(Get(raw, K.amd_sev_snp, VBool(FALSE))),
            Truthy(Get(raw, K.nitrotpm, VBool(FALSE))),
            Truthy(Get(raw, K.nitro_enclaves, VBool(FALSE))))

\* the rows of a section that have the key: "for item in ... if key in item"
RowsWith(rows, key) ==
    LET Has(item) == key \in DOMAIN item
    IN  SelectSeq(rows, Has)

\* {item[key]: Build(item) for item in rows if key in item} raises: a builder
\* raises, or item[key] is a list (TypeError: unhashable)
LookupRaises(rows, key, BuildRaises(_)) ==
    \E i \in 1..Len(rows) :
        /\ key \in DOMAIN rows[i]
        /\ (BuildRaises(rows[i]) \/ Unhashable(rows[i][key]))

\* {item[key]: Build(item) for item in rows if key in item}: a later row with
\* the same key replaces the value and keeps the place of the first
Lookup(rows, key, Build(_)) ==
    LET items == RowsWith(rows, key)
    IN  DictUpdate(<<>>, [i \in 1..Len(items) |->
                            [key |-> HashKey(items[i][key]), val |-> Build(items[i])]])

NeverRaises(raw) == FALSE

DefaultFamilySummary ==
    FamilySummary(VStr(<<>>), VStr(<<>>), FALSE, FALSE, FALSE, FALSE, VList(<<>>))

\* the family lookup with the case-insensitive loop run first
FamilyLookup_case_first(family_summaries, family_name) ==
    LET fs == family_summaries
        match == {i \in 1..Len(fs) : IsStr(fs[i].key) /\ Lower(fs[i].key.s) = Lower(family_name)}
    IN  IF match # {}
        THEN Return([family |-> fs[Min(match)].key.s, summary |-> fs[Min(match)].val])
        ELSE Return([family |-> family_name, summary |-> DefaultFamilySummary])

\* family_summaries.get(family_name), then the case-insensitive loop, then the
\* default summary: the family name and the summary the record is built from.
\* fname.lower() raises AttributeError on a key that is not a str, when the loop
\* reaches it before a match.
FamilyLookup(family_summaries, family_name) ==
    LET fs == family_summaries
        match == {i \in 1..Len(fs) : IsStr(fs[i].key) /\ Lower(fs[i].key.s) = Lower(family_name)}
        bad == {i \in 1..Len(fs) : ~IsStr(fs[i].key)}
    IN  IF DictHas(fs, VStr(family_name))
        THEN Return([family |-> family_name, summary |-> DictAt(fs, VStr(family_name))])
        ELSE IF bad # {} /\ (match = {} \/ Min(bad) < Min(match)) THEN Raise
        ELSE IF match # {}
             THEN Return([family |-> fs[Min(match)].key.s, summary |-> fs[Min(match)].val])
        ELSE Return([family |-> family_name, summary |-> DefaultFamilySummary])

InstanceDetails(instanceType, family, category, family_summary, perf, network, ebs, instanceStore, security) ==
    [instanceType |-> instanceType, family |-> family, category |-> category,
     hypervisor |-> family_summary.hypervisor,
     processorArchitecture |-> family_summary.processorArchitecture,
     metalAvailable |-> family_summary.metalAvailable,
     dedicatedHosts |-> family_summary.dedicatedHosts,
     spot |-> family_summary.spot,
     hibernation |-> family_summary.hibernation,
     operatingSystems |-> family_summary.operatingSystems,
     memoryGiB |-> perf.memoryGiB, processor |-> perf.processor, vCPUs |-> perf.vCPUs,
     cpuCores |-> perf.cpuCores, threadsPerCore |-> perf.threadsPerCore,
     accelerators |-> perf.accelerators, acceleratorMemory |-> perf.acceleratorMemory,
     network |-> network, ebs |-> ebs, instanceStore |-> instanceStore, security |-> security]

\* the lookup tables process_category_data builds first
Ec2Lookups(raw_data) ==
    [family_summaries |->
        Lookup(raw_data.sections.instance_family_summary, K.instance_family, build_family_summary),
     performance |->
        Lookup(raw_data.sections.performance_specifications, K.instance_type, build_performance_spec),
     network |->
        Lookup(raw_data.sections.network_specifications, K.instance_type, build_network_spec),
     ebs |->
        Lookup(raw_data.sections.ebs_specifications, K.instance_type, build_ebs_spec),
     instance_store |->
        Lookup(raw_data.sections.instance_store_specifications, K.instance_type, build_instance_store_spec),
     security |->
        Lookup(raw_data.sections.security_specifications, K.instance_type, build_security_spec)]

Ec2LookupsRaise(raw_data) ==
    \/ LookupRaises(raw_data.sections.instance_family_summary, K.instance_family, NeverRaises)
    \/ LookupRaises(raw_data.sections.performance_specifications, K.instance_type, build_performance_spec_raises)
    \/ LookupRaises(raw_data.sections.network_specifications, K.instance_type, build_network_spec_raises)
    \/ LookupRaises(raw_data.sections.ebs_specifications, K.instance_type, NeverRaises)
    \/ LookupRaises(raw_data.sections.instance_store_specifications, K.instance_type, NeverRaises)
    \/ LookupRaises(raw_data.sections.security_specifications, K.instance_type, NeverRaises)

\* the family name of a performance key: instance_type.split raises AttributeError
\* on a key that is not a str
Ec2FamilyOfKey(t, key) ==
    IF ~IsStr(key) THEN Raise
    ELSE IF extract_family_from_instance_type(key.s).raised THEN Raise
    ELSE FamilyLookup(t.family_summaries, extract_family_from_instance_type(key.s).v)

\* the InstanceDetails process_category_data stores under a performance key
Ec2Details(t, key, category) ==
    LET found == Ec2FamilyOfKey(t, key).v
    IN  InstanceDetails(
            key.s, found.family, category, found.summary,
            DictGet(t.performance, key,
                    PerformanceSpec(Norm(0, 0), VStr(<<>>), 0, 0, 1, VNone, VNone)),
            DictGet(t.network, key,
                    NetworkSpec(BandwidthText(<<>>), FALSE, VBool(FALSE), FALSE, 1, 1, 1, FALSE)),
            DictGet(t.ebs, key,
                    EBSSpec(BandwidthText(<<>>), BandwidthText(<<>>), BandwidthText(<<>>), FALSE,
                            VolumeLimitValue(VStr(<<>>)))),
            DictGet(t.instance_store, key, NoInstanceStore),
            DictGet(t.security, key, SecuritySpec(FALSE, VNone, FALSE, FALSE, FALSE, FALSE)))

\* process_category_data with the loop running over the keys of the performance
\* and of the network table
process_category_data_all_tables(raw_data, category) ==
    IF Ec2LookupsRaise(raw_data) THEN Raise
    ELSE LET t == Ec2Lookups(raw_data)
             keys == DictKeys(DictUpdate(t.performance, t.network))
         IN  IF \E i \in 1..Len(keys) : Ec2FamilyOfKey(t, keys[i]).raised THEN Raise
             ELSE Return([i \in 1..Len(keys) |->
                            [key |-> keys[i].s, val |-> Ec2Details(t, keys[i], category)]])

\* process_category_data: the dict instance type -> InstanceDetails, in the
\* order of the performance table, or the exception that ends the run
process_category_data(raw_data, category) ==
    IF Ec2LookupsRaise(raw_data) THEN Raise
    ELSE LET t == Ec2Lookups(raw_data)
             keys == DictKeys(t.performance)
         IN  IF \E i \in 1..Len(keys) : Ec2FamilyOfKey(t, keys[i]).raised THEN Raise
             ELSE Return([i \in 1..Len(keys) |->
                            [key |-> keys[i].s, val |-> Ec2Details(t, keys[i], category)]])

\* the category names, as texts
Category ==
    [
      general_purpose |->
          <<"g", "e", "n", "e", "r", "a", "l", "_", "p", "u", "r", "p", "o", "s", "e">>,
      compute_optimized |->
          <<"c", "o", "m", "p", "u", "t", "e", "_", "o", "p", "t", "i", "m", "i", "z", "e", "d">>,
      memory_optimized |->
          <<"m", "e", "m", "o", "r", "y", "_", "o", "p", "t", "i", "m", "i", "z", "e", "d">>,
      storage_optimized |->
          <<"s", "t", "o", "r", "a", "g", "e", "_", "o", "p", "t", "i", "m", "i", "z", "e", "d">>,
      accelerated_computing |->
          <<"a", "c", "c", "e", "l", "e", "r", "a", "t", "e", "d", "_", "c", "o", "m", "p", "u", "t", "i", "n", "g">>,
      hpc |->
          <<"h", "p", "c">>,
      burstable_performance |->
          <<"b", "u", "r", "s", "t", "a", "b", "l", "e", "_", "p", "e", "r", "f", "o", "r", "m", "a", "n", "c", "e">>,
      network_optimized |->
          <<"n", "e", "t", "w", "o", "r", "k", "_", "o", "p", "t", "i", "m", "i", "z", "e", "d">>
    ]

\* EC2_CATEGORIES.keys(), in the order of the configuration
EC2_CATEGORIES ==
    <<Category.general_purpose, Category.compute_optimized, Category.memory_optimized,
      Category.storage_optimized, Category.accelerated_computing, Category.hpc>>

RDS_CATEGORIES ==
    <<Category.general_purpose, Category.memory_optimized, Category.compute_optimized,
      Category.burstable_performance>>

ELASTICACHE_CATEGORIES ==
    <<Category.general_purpose, Category.memory_optimized, Category.network_optimized,
      Category.burstable_performance>>

(***************************************************************************)
(* Record Builder: the database and cache domains                          *)
(***************************************************************************)

\* determine_rds_category
determine_rds_category(family) ==
    LET family_lower == Lower(family)
    IN  IF StartsWith(family_lower, <<"t">>) THEN Category.burstable_performance
        ELSE IF \E c \in {"r", "x", "z"} : StartsWith(family_lower, <<c>>)
             THEN Category.memory_optimized
        ELSE IF StartsWith(family_lower, <<"c">>) THEN Category.compute_optimized
        ELSE Category.general_purpose

\* determine_elasticache_category
determine_elasticache_category(family) ==
    LET family_lower == Lower(family)
    IN  IF StartsWith(family_lower, <<"t">>) THEN Category.burstable_performance
        ELSE IF StartsWith(family_lower, <<"r">>) THEN Category.memory_optimized
        ELSE IF StartsWith(family_lower, <<"c">>) THEN Category.network_optimized
        ELSE Category.general_purpose

\* raw.get(first, raw.get(second, default))
Get2(raw, first, second, default) == Get(raw, first, Get(raw, second, default))

\* s.replace(",", "")
WithoutCommas(s) == SelectSeq(s, LAMBDA c : c # ",")

\* "try: int(v) except (ValueError, TypeError): fallback"
IntOr(v, fallback) == IF IntRaises(v) THEN fallback ELSE IntOf(v)

\* "try: float(str(v).replace(",", "")) ...": the cells of these tables are texts
FloatOr(v, fallback) ==
    IF PyFloatOk(WithoutCommas(v.s)) THEN PyFloat(WithoutCommas(v.s)) ELSE fallback

RDSInstanceDetails(instanceClass, family, category, vCPUs, memoryGiB, networkBandwidthGbps, ebsBandwidthMbps) ==
    [instanceClass |-> instanceClass, family |-> family, category |-> category,
     vCPUs |-> vCPUs, memoryGiB |-> memoryGiB,
     networkBandwidthGbps |-> networkBandwidthGbps, ebsBandwidthMbps |-> ebsBandwidthMbps]

\* the rows process_rds_data does not skip
RdsRowUsed(raw) ==
    LET instance_class == Get(raw, K.instance_class, VStr(<<>>))
    IN  Truthy(instance_class) /\ StartsWith(instance_class.s, DbPrefix)

\* the RDSInstanceDetails process_rds_data builds from a row it does not skip
RdsDetails(raw) ==
    LET instance_class == raw[K.instance_class].s
        family == extract_rds_family(instance_class).v
    IN  RDSInstanceDetails(
            instance_class, family, determine_rds_category(family),
            IntOr(Get2(raw, K.vcpu, K.vcpus, VStr(<<"0">>)), 0),
            FloatOr(Get2(raw, K.memory_gib, K.memory, VStr(<<"0">>)), Norm(0, 0)),
            Get2(raw, K.network_bandwidth_gbps, K.network_bandwidth, VStr(<<>>)).s,
            Get2(raw, K.max_ebs_bandwidth_mbps, K.ebs_bandwidth, VStr(<<>>)).s)

\* process_rds_data: a later row of the same class replaces the record
process_rds_data(raw_instances) ==
    LET used == SelectSeq(raw_instances, RdsRowUsed)
    IN  IF \E i \in 1..Len(used) : extract_rds_family(used[i][K.instance_class].s).raised
        THEN Raise
        ELSE Return(DictUpdate(<<>>, [i \in 1..Len(used) |->
                        [key |-> used[i][K.instance_class].s, val |-> RdsDetails(used[i])]]))

\* A number or None (none = TRUE).
NoInt == [none |-> TRUE, n |-> 0]

SomeInt(n) == [none |-> FALSE, n |-> n]

\* A text or None.
NoText == [none |-> TRUE, s |-> <<>>]

SomeText(s) == [none |-> FALSE, s |-> s]

ElastiCacheNodeDetails(nodeType, family, category, vCPUs, memoryGiB, networkPerformance, baselineBandwidthGbps, burstBandwidthGbps) ==
    [nodeType |-> nodeType, family |-> family, category |-> category, vCPUs |-> vCPUs,
     memoryGiB |-> memoryGiB, networkPerformance |-> networkPerformance,
     baselineBandwidthGbps |-> baselineBandwidthGbps,
     burstBandwidthGbps |-> burstBandwidthGbps]

\* the rows process_elasticache_data does not skip for their node type
ElasticacheRowUsed(raw) ==
    LET node_type == Get(raw, K.node_type, VStr(<<>>))
    IN  Truthy(node_type) /\ StartsWith(node_type.s, CachePrefix)

\* the ElastiCacheNodeDetails process_elasticache_data builds from a row
ElasticacheDetails(raw) ==
    LET node_type == raw[K.node_type].s
        family == extract_elasticache_family(node_type).v
        vcpus_str == Get2(raw, K.vcpus, K.vcpu, VStr(<<>>))
        memory_str == Get2(raw, K.memory_gib, K.memory, VStr(<<>>))
        baseline == Get2(raw, K.baseline_bandwidth_gbps, K.baseline_gbps, VStr(<<>>))
        burst == Get2(raw, K.burst_bandwidth_gbps, K.burst_gbps, VStr(<<>>))
    IN  ElastiCacheNodeDetails(
            node_type, family, determine_elasticache_category(family),
            IF Truthy(vcpus_str) /\ ~IntRaises(vcpus_str) THEN SomeInt(IntOf(vcpus_str)) ELSE NoInt,
            IF Truthy(memory_str) THEN FloatOr(memory_str, NoneNum) ELSE NoneNum,
            Get(raw, K.network_performance, VStr(<<>>)).s,
            IF Truthy(baseline) THEN SomeText(baseline.s) ELSE NoText,
            IF Truthy(burst) THEN SomeText(burst.s) ELSE NoText)

\* process_elasticache_data: "if node_type in nodes: continue" keeps the first
\* row of a node type
process_elasticache_data(raw_nodes) ==
    LET used == SelectSeq(raw_nodes, ElasticacheRowUsed)
        First(i) == \A j \in 1..(i - 1) : used[j][K.node_type] # used[i][K.node_type]
        first == Filter(Len(used), First)
    IN  IF \E i \in 1..Len(first) : extract_elasticache_family(used[first[i]][K.node_type].s).raised
        THEN Raise
        ELSE Return([i \in 1..Len(first) |->
                        [key |-> used[first[i]][K.node_type].s,
                         val |-> ElasticacheDetails(used[first[i]])]])

(***************************************************************************)
(* Family Aggregator                                                       *)
(***************************************************************************)

\* the least text of a non-empty set, in code-point order
MinText(S) == CHOOSE a \in S : \A b \in S \ {a} : StrLess(a, b)

RECURSIVE Sorted(_)
\* sorted(S), and list.sort() of a list without repeated entries
Sorted(S) == IF S = {} THEN <<>> ELSE <<MinText(S)>> \o Sorted(S \ {MinText(S)})

\* the keys of the dict that group_* builds: the families in the order in which
\* the loop over all_instances.items() first meets them
FamilyOrder(all_instances) ==
    LET New(i) == \A j \in 1..(i - 1) : all_instances[j].val.family # all_instances[i].val.family
        first == Filter(Len(all_instances), New)
    IN  [k \in 1..Len(first) |-> all_instances[first[k]].val.family]

\* the details that create the family's entry ("if family_name not in families")
FirstOf(all_instances, family_name) ==
    all_instances[Min({i \in 1..Len(all_instances) : all_instances[i].val.family = family_name})].val

\* the family's list when only the entity that creates the entry is appended
Members_first_only(all_instances, family_name) ==
    {all_instances[Min({i \in 1..Len(all_instances) : all_instances[i].val.family = family_name})].key}

\* the family's list when every entity is appended to every family
Members_any_family(all_instances, family_name) ==
    {all_instances[i].key : i \in 1..Len(all_instances)}

\* the keys appended to the family's list
Members(all_instances, family_name) ==
    {all_instances[i].key : i \in {j \in 1..Len(all_instances) : all_instances[j].val.family = family_name}}

FamilyData(details, instanceTypes) ==
    [family |-> details.family, category |-> details.category, instanceTypes |-> instanceTypes,
     hypervisor |-> details.hypervisor,
     processorArchitecture |-> details.processorArchitecture,
     metalAvailable |-> details.metalAvailable, dedicatedHosts |-> details.dedicatedHosts,
     spot |-> details.spot, hibernation |-> details.hibernation,
     operatingSystems |-> details.operatingSystems]

\* group_instances_by_family
group_instances_by_family(all_instances) ==
    LET order == FamilyOrder(all_instances)
    IN  [k \in 1..Len(order) |->
            [key |-> order[k],
             val |-> FamilyData(FirstOf(all_instances, order[k]),
                                Sorted(Members(all_instances, order[k])))]]

RDSFamilyData(details, instanceClasses) ==
    [family |-> details.family, category |-> details.category, instanceClasses |-> instanceClasses]

\* group_rds_instances_by_family
group_rds_instances_by_family(all_instances) ==
    LET order == FamilyOrder(all_instances)
    IN  [k \in 1..Len(order) |->
            [key |-> order[k],
             val |-> RDSFamilyData(FirstOf(all_instances, order[k]),
                                   Sorted(Members(all_instances, order[k])))]]

ElastiCacheFamilyData(details, nodeTypes) ==
    [family |-> details.family, category |-> details.category, nodeTypes |-> nodeTypes]

\* group_elasticache_nodes_by_family
group_elasticache_nodes_by_family(all_nodes) ==
    LET order == FamilyOrder(all_nodes)
    IN  [k \in 1..Len(order) |->
            [key |-> order[k],
             val |-> ElastiCacheFamilyData(FirstOf(all_nodes, order[k]),
                                           Sorted(Members(all_nodes, order[k])))]]

(***************************************************************************)
(* Catalog Serializer                                                      *)
(*                                                                         *)
(* A JSON document is the value json.dump writes: an object is a record or *)
(* a dict, an array a sequence.  A directory of files is the dict from the *)
(* file's stem to its document, in the order of writing.                   *)
(***************************************************************************)

\* serialize_dataclass of a spec: the dict of its fields
serialize_dataclass(obj) == [field_name \in DOMAIN obj |-> obj[field_name]]

\* serialize_instance_details
serialize_instance_details(details) ==
    [instanceType |-> details.instanceType, family |-> details.family,
     category |-> details.category, hypervisor |-> details.hypervisor,
     processorArchitecture |-> details.processorArchitecture,
     metalAvailable |-> details.metalAvailable, dedicatedHosts |-> details.dedicatedHosts,
     spot |-> details.spot, hibernation |-> details.hibernation,
     operatingSystems |-> details.operatingSystems, memoryGiB |-> details.memoryGiB,
     processor |-> details.processor, vCPUs |-> details.vCPUs, cpuCores |-> details.cpuCores,
     threadsPerCore |-> details.threadsPerCore, accelerators |-> details.accelerators,
     acceleratorMemory |-> details.acceleratorMemory,
     network |-> serialize_dataclass(details.network),
     ebs |-> serialize_dataclass(details.ebs),
     instanceStore |-> IF details.instanceStore.none THEN NoInstanceStore
                       ELSE serialize_dataclass(details.instanceStore),
     security |-> serialize_dataclass(details.security)]

\* serialize_family_data
serialize_family_data(family) ==
    [family |-> family.family, category |-> family.category,
     instanceTypes |-> family.instanceTypes, hypervisor |-> family.hypervisor,
     processorArchitecture |-> family.processorArchitecture,
     metalAvailable |-> family.metalAvailable, dedicatedHosts |-> family.dedicatedHosts,
     spot |-> family.spot, hibernation |-> family.hibernation,
     operatingSystems |-> family.operatingSystems]

\* serialize_rds_instance_details
serialize_rds_instance_details(details) ==
    [instanceClass |-> details.instanceClass, family |-> details.family,
     category |-> details.category, vCPUs |-> details.vCPUs, memoryGiB |-> details.memoryGiB,
     networkBandwidthGbps |-> details.networkBandwidthGbps,
     ebsBandwidthMbps |-> details.ebsBandwidthMbps]

\* serialize_rds_family_data
serialize_rds_family_data(family) ==
    [family |-> family.family, category |-> family.category,
     instanceClasses |-> family.instanceClasses]

\* serialize_elasticache_node_details
serialize_elasticache_node_details(details) ==
    [nodeType |-> details.nodeType, family |-> details.family, category |-> details.category,
     vCPUs |-> details.vCPUs, memoryGiB |-> details.memoryGiB,
     networkPerformance |-> details.networkPerformance,
     baselineBandwidthGbps |-> details.baselineBandwidthGbps,
     burstBandwidthGbps |-> details.burstBandwidthGbps]

\* serialize_elasticache_family_data
serialize_elasticache_family_data(family) ==
    [family |-> family.family, category |-> family.category, nodeTypes |-> family.nodeTypes]

\* write_*_files: one file per item of the dict, named after its key
Files(d, Serialize(_)) ==
    [i \in 1..Len(d) |-> [key |-> d[i].key, val |-> Serialize(d[i].val)]]

\* the set of the entries of a list
Range(seq) == {seq[i] : i \in 1..Len(seq)}

\* the info manifest of write_*_info_file: the compute domain names its entity
\* list "instances", as the database domain does; the cache domain "nodeTypes"
Manifest(families, instances, categories) ==
    [families |-> Sorted(Range(DictKeys(families))),
     instances |-> Sorted(Range(DictKeys(instances))),
     categories |-> categories]

\* write_ec2_info_file
write_ec2_info_file(families, instances) == Manifest(families, instances, EC2_CATEGORIES)

\* write_rds_info_file
write_rds_info_file(families, instances) == Manifest(families, instances, RDS_CATEGORIES)

\* write_elasticache_info_file
write_elasticache_info_file(families, nodes) ==
    [families |-> Sorted(Range(DictKeys(families))),
     nodeTypes |-> Sorted(Range(DictKeys(nodes))),
     categories |-> ELASTICACHE_CATEGORIES]

(***************************************************************************)
(* Schema Emitter                                                          *)
(*                                                                         *)
(* The type-definition document is the sequence of the parts that          *)
(* generate_typescript_types joins: a fixed part is named by its title, a  *)
(* union type is its name and the lines '| "v"' it lists (none: the type   *)
(* is declared "= string").                                                *)
(***************************************************************************)

\* extractor(details) for a lambda d: d.<path[1]>.<path[2]>: AttributeError when
\* the object has no such attribute
Extract(details, path) ==
    IF path[1] \notin DOMAIN details THEN Raise
    ELSE IF path[2] \notin DOMAIN details[path[1]] THEN Raise
    ELSE Return(details[path[1]][path[2]])

\* the values one record adds to the set in extract_unique_values
ValuesOf(value) ==
    IF IsStr(value) THEN (IF value.s # <<>> THEN {value.s} ELSE {})
    ELSE IF value.k = "list" THEN {value.l[i] : i \in 1..Len(value.l)} \ {<<>>}
    ELSE {}

\* extract_unique_values: a record whose extractor raises adds nothing
extract_unique_values(instances, path) ==
    UNION {IF Extract(instances[i].val, path).raised THEN {}
           ELSE ValuesOf(Extract(instances[i].val, path).v) : i \in 1..Len(instances)}

FixedPart(title) == [title |-> title, name |-> "", lines |-> <<>>]

RECURSIVE SortedDescending(_)
SortedDescending(S) ==
    IF S = {} THEN <<>> ELSE SortedDescending(S \ {MinText(S)}) \o <<MinText(S)>>

\* generate_union_type listing the values from the greatest to the least
generate_union_type_descending(name, values) ==
    [title |-> "", name |-> name, lines |-> SortedDescending(values)]

\* generate_union_type
generate_union_type(name, values) ==
    [title |-> "", name |-> name, lines |-> Sorted(values)]

\* generate_typescript_types
generate_typescript_types(ec2_instances, ec2_fams, rds_instances, rds_fams, elasticache_nodes, elasticache_fams) ==
    <<FixedPart("Auto-generated"),
      FixedPart("EC2 Types"),
      generate_union_type("EC2InstanceType", Range(DictKeys(ec2_instances))),
      generate_union_type("EC2InstanceFamily", Range(DictKeys(ec2_fams))),
      generate_union_type("EC2Category", Range(EC2_CATEGORIES)),
      generate_union_type("EC2Hypervisor",
          extract_unique_values(ec2_instances, <<"familySummary", "hypervisor">>)),
      generate_union_type("EC2ProcessorArchitecture",
          extract_unique_values(ec2_instances, <<"familySummary", "processorArchitecture">>)),
      generate_union_type("EC2Processor",
          extract_unique_values(ec2_instances, <<"performance", "processor">>)),
      generate_union_type("EC2OperatingSystem",
          extract_unique_values(ec2_instances, <<"familySummary", "operatingSystems">>)),
      generate_union_type("EC2Accelerator",
          extract_unique_values(ec2_instances, <<"performance", "accelerators">>)),
      FixedPart("EC2 Interfaces"),
      FixedPart("RDS Types"),
      generate_union_type("RDSInstanceClass", Range(DictKeys(rds_instances))),
      generate_union_type("RDSInstanceFamily", Range(DictKeys(rds_fams))),
      generate_union_type("RDSCategory", Range(RDS_CATEGORIES)),
      FixedPart("RDS Interfaces"),
      FixedPart("Elasticache Types"),
      generate_union_type("ElastiCacheNodeType", Range(DictKeys(elasticache_nodes))),
      generate_union_type("ElastiCacheFamily", Range(DictKeys(elasticache_fams))),
      generate_union_type("ElastiCacheCategory", Range(ELASTICACHE_CATEGORIES)),
      FixedPart("Elasticache Interfaces")>>

(***************************************************************************)
(* The coercers and cleaners called on their own                           *)
(***************************************************************************)

\* main() is not running: a function is called on its own
NoDisk ==
    [written |-> {},
     ec2 |-> [instances |-> <<>>, families |-> <<>>, info |-> <<>>],
     rds |-> [instances |-> <<>>, families |-> <<>>, info |-> <<>>],
     elasticache |-> [instances |-> <<>>, families |-> <<>>, info |-> <<>>],
     types |-> <<>>]

MainIdle ==
    /\ pc = "idle"
    /\ cat = 0
    /\ listed = 0
    /\ all_ec2_instances = <<>>
    /\ ec2_families = <<>>
    /\ all_rds_instances = <<>>
    /\ rds_families = <<>>
    /\ all_elasticache_nodes = <<>>
    /\ elasticache_families = <<>>
    /\ disk = NoDisk

MaxTokens == 4

MaxTypeTokens == 3

RECURSIVE Texts(_, _)
\* the texts made of at most n pieces of T
Texts(T, n) ==
    IF n = 0 THEN {<<>>}
    ELSE Texts(T, n - 1) \cup {t \o x : t \in T, x \in Texts(T, n - 1)}

\* pieces of the texts a bandwidth cell holds
BandwidthTokens ==
    { <<"0", ".", "7", "5">>,
      <<"1", "0", ".", "0">>,
      <<" ", "/", " ">>,
      <<"/">>,
      <<" ", "G", "i", "g", "a", "b", "i", "t">>,
      <<"H", "i", "g", "h">>,
      <<".">>,
      <<"1", "0", "0">> }

\* pieces of the texts a volume-limit cell holds
VolumeTokens ==
    { <<"U", "p", " ", "t", "o", " ">>,
      <<"2", "7", " ", "(">>,
      <<"2", "7", "(">>,
      <<"S", "h", "a", "r", "e", "d">>,
      <<"X", "e", "n">>,
      <<"-", "b", "a", "s", "e", "d">>,
      <<" ", "b", "a", "s", "e", "d">>,
      <<" ", "l", "i", "m", "i", "t", ")">>,
      <<"L", "I", "M", "I", "T", ")">>,
      <<" ">>,
      <<"1">> }

\* pieces of the texts an instance-type cell holds
TypeTokens ==
    { <<"m", "5", ".">>,
      <<"1", "6">>,
      <<"1">>,
      <<"x", "l", "a", "r", "g", "e">>,
      <<"l", "a", "r", "g", "e">>,
      <<"m", "e", "t", "a", "l">>,
      <<"-", "4", "8", "x", "l">>,
      <<"n", "a", "n", "o">>,
      <<"x">> }

BandwidthInit ==
    /\ MainIdle
    /\ arg \in {VStr(t) : t \in Texts(BandwidthTokens, MaxTokens)}
    /\ res = BandwidthText(<<>>)
    /\ fn = "start"

CallParseBandwidth ==
    /\ fn = "start"
    /\ res' = parse_bandwidth(arg)
    /\ fn' = "parse_bandwidth"
    /\ UNCHANGED <<arg, mvars>>

BandwidthNext == CallParseBandwidth

SpecBandwidth == BandwidthInit /\ [][BandwidthNext]_vars

VolumeInit ==
    /\ MainIdle
    /\ arg \in {VStr(t) : t \in Texts(VolumeTokens, MaxTokens)}
    /\ res = VolumeLimitValue(VNone)
    /\ fn = "start"

CallParseVolumeLimit ==
    /\ fn = "start"
    /\ res' = parse_volume_limit(arg)
    /\ fn' = "parse_volume_limit"
    /\ UNCHANGED <<arg, mvars>>

VolumeNext == CallParseVolumeLimit

SpecVolumeLimit == VolumeInit /\ [][VolumeNext]_vars

TypeInit ==
    /\ MainIdle
    /\ arg \in Texts(TypeTokens, MaxTypeTokens)
    /\ res = <<>>
    /\ fn = "start"

\* token' = clean_instance_type(token)
CallCleanInstanceType ==
    /\ fn = "start"
    /\ res' = clean_instance_type(arg)
    /\ fn' = "cleaned"
    /\ UNCHANGED <<arg, mvars>>

\* the cleaned token cleaned again
CallCleanInstanceTypeAgain ==
    /\ fn = "cleaned"
    /\ res' = clean_instance_type(res)
    /\ fn' = "cleaned_twice"
    /\ UNCHANGED <<arg, mvars>>

TypeNext == CallCleanInstanceType \/ CallCleanInstanceTypeAgain

SpecCleanType == TypeInit /\ [][TypeNext]_vars

\* the texts a cell of a table of the model holds
CellTexts ==
    { <<>>,
      <<"m", "5", ".", "l", "a", "r", "g", "e", "1">>,
      <<"d", "b", ".", "m", "5", ".", "l", "a", "r", "g", "e", "*">>,
      <<"c", "a", "c", "h", "e", ".", "m", "5", ".", "l", "a", "r", "g", "e">> }

\* the header rows of the tables of the model (<<>>: a table without thead)
TableHeads ==
    { <<>>,
      <<<<"I", "n", "s", "t", "a", "n", "c", "e", " ", "t", "y", "p", "e">>, <<"M", "e", "m", "o", "r", "y", " ", "(", "G", "i", "B", ")">>>>,
      <<<<"I", "n", "s", "t", "a", "n", "c", "e", " ", "c", "l", "a", "s", "s">>, <<"v", "C", "P", "U">>>>,
      <<<<"N", "o", "d", "e", " ", "t", "y", "p", "e">>, <<"v", "C", "P", "U", "s">>>> }

MaxCells == 2

MaxRows == 1

\* the sequences of at most n elements of S
RECURSIVE SeqsUpTo(_, _)
SeqsUpTo(S, n) ==
    IF n = 0 THEN {<<>>}
    ELSE SeqsUpTo(S, n - 1) \cup {Append(q, x) : q \in SeqsUpTo(S, n - 1), x \in S}

Tables ==
    {[thead |-> h, body |-> b] :
        h \in TableHeads, b \in SeqsUpTo(SeqsUpTo(CellTexts, MaxCells), MaxRows)}

TableInit ==
    /\ MainIdle
    /\ arg \in Tables
    /\ res = [rows |-> <<>>, from |-> <<>>]
    /\ fn = "start"

\* rows = parse_table(table); from: the tr each returned RawRow was built from
CallParseTable ==
    /\ fn = "start"
    /\ res' = [rows |-> parse_table(arg), from |-> parse_table_kept(arg)]
    /\ fn' = "parse_table"
    /\ UNCHANGED <<arg, mvars>>

CallParseRdsTable ==
    /\ fn = "start"
    /\ res' = [rows |-> parse_rds_table(arg), from |-> parse_rds_table_kept(arg)]
    /\ fn' = "parse_rds_table"
    /\ UNCHANGED <<arg, mvars>>

CallParseElasticacheTable ==
    /\ fn = "start"
    /\ res' = [rows |-> parse_elasticache_table(arg), from |-> parse_elasticache_table_kept(arg)]
    /\ fn' = "parse_elasticache_table"
    /\ UNCHANGED <<arg, mvars>>

TableNext == CallParseTable \/ CallParseRdsTable \/ CallParseElasticacheTable

SpecTable == TableInit /\ [][TableNext]_vars

\* the pieces the cell texts given to parse_basic_value are put together from
ValueTokens ==
    { <<"Y", "e", "s">>, <<"n", "o">>, <<"|">>, <<" ">>, <<"1">>,
      <<"2", ".", "5">>, <<".">>, <<"x">>, <<"-">>, <<"_">>, <<",">>, <<"0">> }

\* the number of pieces of a cell text
MaxValueTokens == 3

ValueInit ==
    /\ arg \in Texts(ValueTokens, MaxValueTokens)
    /\ res = <<>>
    /\ fn = "input"
    /\ MainIdle

CallParseBasicValue ==
    /\ fn = "input"
    /\ res' = parse_basic_value(arg)
    /\ fn' = "parse_basic_value"
    /\ UNCHANGED <<arg, mvars>>

ValueNext == CallParseBasicValue

SpecBasicValue == ValueInit /\ [][ValueNext]_vars

\* the headers of the columns parse_table cleans in its own way
CellHeads ==
    { <<"I", "n", "s", "t", "a", "n", "c", "e", " ", "t", "y", "p", "e">>,
      <<"H", "y", "p", "e", "r", "v", "i", "s", "o", "r">>,
      <<"S", "u", "p", "p", "o", "r", "t", "e", "d", " ", "o", "p", "e", "r", "a", "t", "i", "n", "g", " ", "s", "y", "s", "t", "e", "m", "s">> }

\* the pieces the text of such a cell is put together from: a name, a
\* parenthetical qualifier, footnote marks, a separator, a word read as a boolean
CellTokens ==
    { <<"m", "5", ".", "l", "a", "r", "g", "e">>, <<" ", "(", "x", ")">>, <<"1">>, <<"*">>,
      <<"|">>, <<"Y", "e", "s">>, <<" ">> }

\* the number of pieces of the text of a cell
MaxCellTokens == 3

\* a table of one row: the cell under its header, and a second column
CellTable(header, text) ==
    [thead |-> <<header, <<"M", "e", "m", "o", "r", "y", " ", "(", "G", "i", "B", ")">>>>,
     body |-> <<<<text, <<"8">>>>>>]

CellInit ==
    /\ arg \in [header : CellHeads, text : Texts(CellTokens, MaxCellTokens)]
    /\ res = <<>>
    /\ fn = "input"
    /\ MainIdle

\* rows = parse_table(table); the value stored under the header of the cell
CallParseTableCell ==
    /\ fn = "input"
    /\ res' = [input |-> VStr(arg.text),
               out |-> parse_table(CellTable(arg.header, arg.text))[1][to_snake_case(clean_text(arg.header))]]
    /\ fn' = "parse_table"
    /\ UNCHANGED <<arg, mvars>>

\* clean_operating_system(os_value), os_value a str or a list of str
CallCleanOperatingSystem ==
    /\ fn = "input"
    /\ to_snake_case(clean_text(arg.header)) = K.supported_operating_systems
    /\ \E os_value \in {VStr(arg.text), VList(<<arg.text>>), VList(<<arg.text, clean_text(arg.text)>>)} :
          res' = [input |-> os_value, out |-> VList(clean_operating_system(os_value))]
    /\ fn' = "clean_operating_system"
    /\ UNCHANGED <<arg, mvars>>

CellNext == CallParseTableCell \/ CallCleanOperatingSystem

SpecCell == CellInit /\ [][CellNext]_vars

\* the pieces a header text is put together from: two words and the separators
HeaderTokens ==
    { <<"M", "e", "m", "o", "r", "y">>, <<"G", "i", "B">>, <<"(">>, <<")">>, <<".">>,
      <<"/">>, <<"-">>, <<" ">>, <<"_">> }

\* the number of pieces of a header text
MaxHeaderTokens == 3

HeaderInit ==
    /\ arg \in Texts(HeaderTokens, MaxHeaderTokens)
    /\ res = <<>>
    /\ fn = "input"
    /\ MainIdle

CallToSnakeCase ==
    /\ fn = "input"
    /\ res' = to_snake_case(arg)
    /\ fn' = "to_snake_case"
    /\ UNCHANGED <<arg, mvars>>

HeaderNext == CallToSnakeCase

SpecSnakeCase == HeaderInit /\ [][HeaderNext]_vars

(***************************************************************************)
(* The generator run: main()                                               *)
(*                                                                         *)
(* A page is what BeautifulSoup finds in the fetched markup: the sequence  *)
(* of its tables.  Every fetch returns one of the pages below, or fails.   *)
(***************************************************************************)

\* a category page: the table of contents, the family summary, the performance table
PageM5 ==
    <<[thead |-> <<>>,
       body |-> <<>>],
      [thead |-> <<<<"I", "n", "s", "t", "a", "n", "c", "e", " ", "f", "a", "m", "i", "l", "y">>, <<"H", "y", "p", "e", "r", "v", "i", "s", "o", "r">>>>,
       body |-> <<<<<<"M", "5">>, <<"N", "i", "t", "r", "o", " ", "v", "2">>>>>>],
      [thead |-> <<<<"I", "n", "s", "t", "a", "n", "c", "e", " ", "t", "y", "p", "e">>, <<"P", "r", "o", "c", "e", "s", "s", "o", "r">>>>,
       body |-> <<<<<<"m", "5", ".", "l", "a", "r", "g", "e", "1">>, <<"I", "n", "t", "e", "l">>>>,
                  <<<<"m", "5", ".", "x", "l", "a", "r", "g", "e">>, <<"I", "n", "t", "e", "l">>>>>>]>>

\* a page whose family summary spells the family in lower case
PageLowerM5 ==
    <<[thead |-> <<>>,
       body |-> <<>>],
      [thead |-> <<<<"I", "n", "s", "t", "a", "n", "c", "e", " ", "f", "a", "m", "i", "l", "y">>, <<"H", "y", "p", "e", "r", "v", "i", "s", "o", "r">>>>,
       body |-> <<<<<<"m", "5">>, <<"X", "e", "n">>>>>>],
      [thead |-> <<<<"I", "n", "s", "t", "a", "n", "c", "e", " ", "t", "y", "p", "e">>, <<"P", "r", "o", "c", "e", "s", "s", "o", "r">>>>,
       body |-> <<<<<<"m", "5", ".", "l", "a", "r", "g", "e">>, <<"A", "M", "D">>>>>>]>>

\* a page that lists a type of another page again
PageC5 ==
    <<[thead |-> <<>>,
       body |-> <<>>],
      [thead |-> <<<<"I", "n", "s", "t", "a", "n", "c", "e", " ", "f", "a", "m", "i", "l", "y">>, <<"H", "y", "p", "e", "r", "v", "i", "s", "o", "r">>>>,
       body |-> <<<<<<"C", "5">>, <<"N", "i", "t", "r", "o", " ", "v", "2">>>>>>],
      [thead |-> <<<<"I", "n", "s", "t", "a", "n", "c", "e", " ", "t", "y", "p", "e">>, <<"P", "r", "o", "c", "e", "s", "s", "o", "r">>>>,
       body |-> <<<<<<"c", "5", ".", "l", "a", "r", "g", "e">>, <<"I", "n", "t", "e", "l">>>>,
                  <<<<"m", "5", ".", "l", "a", "r", "g", "e">>, <<"G", "r", "a", "v", "i", "t", "o", "n">>>>>>]>>

\* a page whose performance table has a type without a family part
PageNoFamily ==
    <<[thead |-> <<>>,
       body |-> <<>>],
      [thead |-> <<<<"I", "n", "s", "t", "a", "n", "c", "e", " ", "f", "a", "m", "i", "l", "y">>, <<"H", "y", "p", "e", "r", "v", "i", "s", "o", "r">>>>,
       body |-> <<<<<<"M", "5">>, <<"N", "i", "t", "r", "o", " ", "v", "2">>>>>>],
      [thead |-> <<<<"I", "n", "s", "t", "a", "n", "c", "e", " ", "t", "y", "p", "e">>, <<"P", "r", "o", "c", "e", "s", "s", "o", "r">>>>,
       body |-> <<<<<<".", "l", "a", "r", "g", "e">>, <<"I", "n", "t", "e", "l">>>>>>]>>

\* the database page: a footnoted class, a class listed twice, a row that is no class
RdsPage ==
    <<[thead |-> <<<<"I", "n", "s", "t", "a", "n", "c", "e", " ", "c", "l", "a", "s", "s">>, <<"v", "C", "P", "U">>, <<"M", "e", "m", "o", "r", "y", " ", "(", "G", "i", "B", ")">>>>,
       body |-> <<<<<<"d", "b", ".", "m", "5", ".", "l", "a", "r", "g", "e", "*">>, <<"2">>, <<"8">>>>,
                  <<<<"d", "b", ".", "r", "5", ".", "l", "a", "r", "g", "e">>, <<"2">>, <<"1", "6">>>>,
                  <<<<"d", "b", ".", "m", "5", ".", "l", "a", "r", "g", "e">>, <<"4">>, <<"1", ",", "0", "2", "4">>>>,
                  <<<<"m", "5", ".", "l", "a", "r", "g", "e">>, <<"2">>, <<"8">>>>>>]>>

\* a database page with a class without a family part
RdsPageNoFamily ==
    <<[thead |-> <<<<"I", "n", "s", "t", "a", "n", "c", "e", " ", "c", "l", "a", "s", "s">>, <<"v", "C", "P", "U">>>>,
       body |-> <<<<<<"d", "b", ".", "t", "3", ".", "m", "i", "c", "r", "o">>, <<"2">>>>,
                  <<<<"d", "b", ".">>, <<"2">>>>>>]>>

\* the cache page: a node type listed twice
ElasticachePage ==
    <<[thead |-> <<<<"N", "o", "d", "e", " ", "t", "y", "p", "e">>, <<"v", "C", "P", "U", "s">>>>,
       body |-> <<<<<<"c", "a", "c", "h", "e", ".", "m", "5", ".", "l", "a", "r", "g", "e">>, <<"2">>>>,
                  <<<<"c", "a", "c", "h", "e", ".", "t", "3", ".", "m", "i", "c", "r", "o">>, <<"2">>>>,
                  <<<<"c", "a", "c", "h", "e", ".", "m", "5", ".", "l", "a", "r", "g", "e">>, <<"4">>>>>>]>>

\* a cache page with a node type without a family part
ElasticachePageNoFamily ==
    <<[thead |-> <<<<"N", "o", "d", "e", " ", "t", "y", "p", "e">>, <<"v", "C", "P", "U", "s">>>>,
       body |-> <<<<<<"c", "a", "c", "h", "e", ".", "r", "5", ".", "l", "a", "r", "g", "e">>, <<"2">>>>,
                  <<<<"c", "a", "c", "h", "e", ".">>, <<"2">>>>>>]>>

NoTables == <<>>

Ec2Pages == {PageM5, PageLowerM5, PageC5, PageNoFamily}

RdsPages == {RdsPage, RdsPageNoFamily}

ElasticachePages == {ElasticachePage, ElasticachePageNoFamily}

\* the number of fetches of one run that return a page with tables
MaxPages == 3

Init ==
    /\ arg = <<>>
    /\ res = <<>>
    /\ fn = "main"
    /\ pc = "ec2"
    /\ cat = 1
    /\ listed = 0
    /\ all_ec2_instances = <<>>
    /\ ec2_families = <<>>
    /\ all_rds_instances = <<>>
    /\ rds_families = <<>>
    /\ all_elasticache_nodes = <<>>
    /\ elasticache_families = <<>>
    /\ disk = NoDisk

\* the pages a fetch can return
Fetched(pages) == IF listed < MaxPages THEN pages \cup {NoTables} ELSE {NoTables}

Listed(html) == IF html = NoTables THEN listed ELSE listed + 1

\* requests.get fails or raise_for_status raises: the run ends with the exception
FetchFails ==
    /\ \/ pc = "ec2" /\ cat <= Len(EC2_CATEGORIES)
       \/ pc \in {"rds", "elasticache"}
    /\ pc' = "failed"
    /\ UNCHANGED <<fvars, cat, listed, all_ec2_instances, ec2_families, all_rds_instances,
                   rds_families, all_elasticache_nodes, elasticache_families, disk>>

\* one iteration of "for category, url in EC2_CATEGORIES.items()"
ScrapeCategory ==
    /\ pc = "ec2"
    /\ cat <= Len(EC2_CATEGORIES)
    /\ \E html \in Fetched(Ec2Pages) :
          LET instances == process_category_data(parse_category_page(html), EC2_CATEGORIES[cat])
          IN  /\ listed' = Listed(html)
              /\ IF instances.raised
                 THEN pc' = "crashed" /\ UNCHANGED <<cat, all_ec2_instances>>
                 ELSE /\ all_ec2_instances' = DictUpdate(all_ec2_instances, instances.v)
                      /\ cat' = cat + 1
                      /\ pc' = "ec2"
    /\ UNCHANGED <<fvars, ec2_families, all_rds_instances, rds_families,
                   all_elasticache_nodes, elasticache_families, disk>>

\* main with the compute files left unwritten when the database pipeline starts
GroupEc2_then_rds ==
    /\ pc = "ec2"
    /\ cat > Len(EC2_CATEGORIES)
    /\ ec2_families' = group_instances_by_family(all_ec2_instances)
    /\ pc' = "rds"
    /\ UNCHANGED <<fvars, cat, listed, all_ec2_instances, all_rds_instances, rds_families,
                   all_elasticache_nodes, elasticache_families, disk>>

GroupEc2 ==
    /\ pc = "ec2"
    /\ cat > Len(EC2_CATEGORIES)
    /\ ec2_families' = group_instances_by_family(all_ec2_instances)
    /\ pc' = "ec2_instance_files"
    /\ UNCHANGED <<fvars, cat, listed, all_ec2_instances, all_rds_instances, rds_families,
                   all_elasticache_nodes, elasticache_families, disk>>

\* a write_* call that is also made when a fetch has failed
Write_after_failure(at, next, domain, kind, content) ==
    /\ pc \in {at, "failed"}
    /\ disk' = [disk EXCEPT !.written = @ \cup {<<domain, kind>>}, ![domain][kind] = content]
    /\ pc' = next
    /\ UNCHANGED <<fvars, cat, listed, all_ec2_instances, ec2_families, all_rds_instances,
                   rds_families, all_elasticache_nodes, elasticache_families>>

\* a write_* call of main: the file set it leaves in its directory
Write(at, next, domain, kind, content) ==
    /\ pc = at
    /\ disk' = [disk EXCEPT !.written = @ \cup {<<domain, kind>>}, ![domain][kind] = content]
    /\ pc' = next
    /\ UNCHANGED <<fvars, cat, listed, all_ec2_instances, ec2_families, all_rds_instances,
                   rds_families, all_elasticache_nodes, elasticache_families>>

WriteEc2InstanceFiles ==
    Write("ec2_instance_files", "ec2_family_files", "ec2", "instances",
          Files(all_ec2_instances, serialize_instance_details))

WriteEc2FamilyFiles ==
    Write("ec2_family_files", "ec2_info_file", "ec2", "families",
          Files(ec2_families, serialize_family_data))

WriteEc2InfoFile ==
    Write("ec2_info_file", "rds", "ec2", "info",
          write_ec2_info_file(ec2_families, all_ec2_instances))

\* fetch_html(RDS_URL), parse_rds_page, process_rds_data
ScrapeRds ==
    /\ pc = "rds"
    /\ \E html \in Fetched(RdsPages) :
          LET instances == process_rds_data(parse_rds_page(html))
          IN  /\ listed' = Listed(html)
              /\ IF instances.raised
                 THEN pc' = "crashed" /\ UNCHANGED all_rds_instances
                 ELSE all_rds_instances' = instances.v /\ pc' = "rds_group"
    /\ UNCHANGED <<fvars, cat, all_ec2_instances, ec2_families, rds_families,
                   all_elasticache_nodes, elasticache_families, disk>>

GroupRds ==
    /\ pc = "rds_group"
    /\ rds_families' = group_rds_instances_by_family(all_rds_instances)
    /\ pc' = "rds_instance_files"
    /\ UNCHANGED <<fvars, cat, listed, all_ec2_instances, ec2_families, all_rds_instances,
                   all_elasticache_nodes, elasticache_families, disk>>

WriteRdsInstanceFiles ==
    Write("rds_instance_files", "rds_family_files", "rds", "instances",
          Files(all_rds_instances, serialize_rds_instance_details))

WriteRdsFamilyFiles ==
    Write("rds_family_files", "rds_info_file", "rds", "families",
          Files(rds_families, serialize_rds_family_data))

WriteRdsInfoFile ==
    Write("rds_info_file", "elasticache", "rds", "info",
          write_rds_info_file(rds_families, all_rds_instances))

\* fetch_html(ELASTICACHE_URL), parse_elasticache_page, process_elasticache_data
ScrapeElasticache ==
    /\ pc = "elasticache"
    /\ \E html \in Fetched(ElasticachePages) :
          LET nodes == process_elasticache_data(parse_elasticache_page(html))
          IN  /\ listed' = Listed(html)
              /\ IF nodes.raised
                 THEN pc' = "crashed" /\ UNCHANGED all_elasticache_nodes
                 ELSE all_elasticache_nodes' = nodes.v /\ pc' = "elasticache_group"
    /\ UNCHANGED <<fvars, cat, all_ec2_instances, ec2_families, all_rds_instances,
                   rds_families, elasticache_families, disk>>

GroupElasticache ==
    /\ pc = "elasticache_group"
    /\ elasticache_families' = group_elasticache_nodes_by_family(all_elasticache_nodes)
    /\ pc' = "elasticache_node_files"
    /\ UNCHANGED <<fvars, cat, listed, all_ec2_instances, ec2_families, all_rds_instances,
                   rds_families, all_elasticache_nodes, disk>>

WriteElasticacheNodeFiles ==
    Write("elasticache_node_files", "elasticache_family_files", "elasticache", "instances",
          Files(all_elasticache_nodes, serialize_elasticache_node_details))

WriteElasticacheFamilyFiles ==
    Write("elasticache_family_files", "elasticache_info_file", "elasticache", "families",
          Files(elasticache_families, serialize_elasticache_family_data))

WriteElasticacheInfoFile ==
    Write("elasticache_info_file", "types", "elasticache", "info",
          write_elasticache_info_file(elasticache_families, all_elasticache_nodes))

\* generate_typescript_types and write_typescript_file
WriteTypes ==
    /\ pc = "types"
    /\ disk' = [disk EXCEPT
                  !.written = @ \cup {<<"types", "types">>},
                  !.types = generate_typescript_types(
                                all_ec2_instances, ec2_families, all_rds_instances,
                                rds_families, all_elasticache_nodes, elasticache_families)]
    /\ pc' = "done"
    /\ UNCHANGED <<fvars, cat, listed, all_ec2_instances, ec2_families, all_rds_instances,
                   rds_families, all_elasticache_nodes, elasticache_families>>

Next ==
    \/ FetchFails
    \/ ScrapeCategory
    \/ GroupEc2
    \/ WriteEc2InstanceFiles
    \/ WriteEc2FamilyFiles
    \/ WriteEc2InfoFile
    \/ ScrapeRds
    \/ GroupRds
    \/ WriteRdsInstanceFiles
    \/ WriteRdsFamilyFiles
    \/ WriteRdsInfoFile
    \/ ScrapeElasticache
    \/ GroupElasticache
    \/ WriteElasticacheNodeFiles
    \/ WriteElasticacheFamilyFiles
    \/ WriteElasticacheInfoFile
    \/ WriteTypes

Spec == Init /\ [][Next]_vars

(***************************************************************************)
(* The schema emitter called on its own                                    *)
(*                                                                         *)
(* A dataset is the three record dicts of a run; the family dicts are      *)
(* grouped from them as main does.                                         *)
(***************************************************************************)

\* the number of category pages a dataset is built from
MaxCategoryPages == 2

RECURSIVE Ec2Dataset(_, _)
\* all_ec2_instances after the first n of the pages, one per category
Ec2Dataset(pages, n) ==
    IF n = 0 THEN <<>>
    ELSE DictUpdate(Ec2Dataset(pages, n - 1),
                    process_category_data(parse_category_page(pages[n]), EC2_CATEGORIES[n]).v)

Datasets ==
    {[ec2 |-> Ec2Dataset(pages, Len(pages)),
      rds |-> process_rds_data(parse_rds_page(rds)).v,
      elasticache |-> process_elasticache_data(parse_elasticache_page(nodes)).v] :
        pages \in SeqsUpTo({PageM5, PageLowerM5, PageC5}, MaxCategoryPages),
        rds \in {NoTables, RdsPage},
        nodes \in {NoTables, ElasticachePage}}

\* the dicts that hold the items of d in another order
Reordered(d) ==
    {[i \in 1..Len(d) |-> d[p[i]]] :
        p \in {q \in [1..Len(d) -> 1..Len(d)] : \A i, j \in 1..Len(d) : q[i] = q[j] => i = j}}

\* generate_typescript_types as main calls it
TypesOf(dataset) ==
    generate_typescript_types(
        dataset.ec2, group_instances_by_family(dataset.ec2),
        dataset.rds, group_rds_instances_by_family(dataset.rds),
        dataset.elasticache, group_elasticache_nodes_by_family(dataset.elasticache))

TypesInit ==
    /\ arg \in Datasets
    /\ res = <<>>
    /\ fn = "input"
    /\ MainIdle

CallGenerateTypes ==
    /\ fn = "input"
    /\ res' = TypesOf(arg)
    /\ fn' = "generate_typescript_types"
    /\ UNCHANGED <<arg, mvars>>

\* a second run, on a dataset that holds the same records in another order
CallGenerateTypesReordered ==
    /\ fn = "generate_typescript_types"
    /\ \E ec2 \in Reordered(arg.ec2), rds \in Reordered(arg.rds),
          nodes \in Reordered(arg.elasticache) :
          LET again == [ec2 |-> ec2, rds |-> rds, elasticache |-> nodes]
          IN  res' = [first |-> res, again |-> again, second |-> TypesOf(again)]
    /\ fn' = "generated_reordered"
    /\ UNCHANGED <<arg, mvars>>

TypesNext == CallGenerateTypes \/ CallGenerateTypesReordered

SpecTypes == TypesInit /\ [][TypesNext]_vars

(***************************************************************************)
(* The compute record builder called on its own                            *)
(*                                                                         *)
(* A category page with its first four tables: the table of contents, the  *)
(* family summary, the performance table and the network table.            *)
(***************************************************************************)

\* the rows a family summary table is drawn from
FamilyRows ==
    {<<<<"M", "5">>, <<"N", "i", "t", "r", "o", " ", "v", "2">>>>}

\* the rows a performance table is drawn from: a footnoted key, a memory cell that is no number
PerformanceRows ==
    {<<<<"m", "5", ".", "l", "a", "r", "g", "e">>, <<"8">>>>,
     <<<<"m", "5", ".", "l", "a", "r", "g", "e">>, <<"N", "/", "A">>>>,
     <<<<"m", "5", ".", "l", "a", "r", "g", "e", "1">>, <<"8">>>>,
     <<<<"m", "5", ".", "l", "a", "r", "g", "e", "1">>, <<"N", "/", "A">>>>,
     <<<<"c", "5", ".", "l", "a", "r", "g", "e">>, <<"8">>>>,
     <<<<"c", "5", ".", "l", "a", "r", "g", "e">>, <<"N", "/", "A">>>>}

\* the rows a network table is drawn from: a key the performance table may lack, a card count that is a list
NetworkRows ==
    {<<<<"m", "5", ".", "l", "a", "r", "g", "e">>, <<"2">>>>,
     <<<<"r", "5", ".", "l", "a", "r", "g", "e">>, <<"2">>>>,
     <<<<"m", "5", ".", "l", "a", "r", "g", "e">>, <<"1", "|", "2">>>>}

FamilyHead == <<<<"I", "n", "s", "t", "a", "n", "c", "e", " ", "f", "a", "m", "i", "l", "y">>, <<"H", "y", "p", "e", "r", "v", "i", "s", "o", "r">>>>

PerformanceHead == <<<<"I", "n", "s", "t", "a", "n", "c", "e", " ", "t", "y", "p", "e">>, <<"M", "e", "m", "o", "r", "y", " ", "(", "G", "i", "B", ")">>>>

NetworkHead == <<<<"I", "n", "s", "t", "a", "n", "c", "e", " ", "t", "y", "p", "e">>, <<"N", "e", "t", "w", "o", "r", "k", " ", "c", "a", "r", "d", "s">>>>

\* the number of rows of the performance table of a page
MaxPerformanceRows == 2

\* the rows a family table is drawn from: the family name as the keys spell it,
\* the same name in lower case, another family
LookupFamilyRows ==
    FamilyRows \cup {<<<<"m", "5">>, <<"X", "e", "n">>>>, <<<<"C", "5">>, <<"K", "V", "M">>>>}

\* the number of rows of the family table of a page
MaxFamilyRows == 2

\* pages that vary the performance and the network table
JoinPages ==
    {<<[thead |-> <<>>, body |-> <<>>],
       [thead |-> FamilyHead, body |-> family],
       [thead |-> PerformanceHead, body |-> performance],
       [thead |-> NetworkHead, body |-> network]>> :
        family \in SeqsUpTo(FamilyRows, 1),
        performance \in SeqsUpTo(PerformanceRows, MaxPerformanceRows),
        network \in SeqsUpTo(NetworkRows, 1)}

\* pages that vary the family table
LookupPages ==
    {<<[thead |-> <<>>, body |-> <<>>],
       [thead |-> FamilyHead, body |-> family],
       [thead |-> PerformanceHead, body |-> performance]>> :
        family \in SeqsUpTo(LookupFamilyRows, MaxFamilyRows),
        performance \in {<<<<<<"m", "5", ".", "l", "a", "r", "g", "e">>, <<"8">>>>>>,
                         <<<<<<"m", "5", ".", "l", "a", "r", "g", "e">>, <<"8">>>>,
                           <<<<"c", "5", ".", "l", "a", "r", "g", "e">>, <<"8">>>>>>}}

\* the texts of a bandwidth or IOPS cell: two numbers, one number, words read as
\* booleans, a rating, a text with the unit keyword, a text with "|", no text
BandwidthCells ==
    { <<"0", ".", "7", "5", " ", "/", " ", "1", "0", ".", "0">>,
      <<"1", "0", "0">>,
      <<"2", ".", "5">>,
      <<"Y", "e", "s">>,
      <<"N", "o">>,
      <<"H", "i", "g", "h">>,
      <<"1", "0", "0", " ", "G", "i", "g", "a", "b", "i", "t">>,
      <<"1", "|", "2">>,
      <<>> }

BandwidthHead ==
    <<<<"I", "n", "s", "t", "a", "n", "c", "e", " ", "t", "y", "p", "e">>,
      <<"B", "a", "s", "e", "l", "i", "n", "e", " ", "/", " ", "B", "u", "r", "s", "t", " ", "b", "a", "n", "d", "w", "i", "d", "t", "h", " ", "(", "G", "b", "p", "s", ")">>>>

IopsHead ==
    <<<<"I", "n", "s", "t", "a", "n", "c", "e", " ", "t", "y", "p", "e">>,
      <<"B", "a", "s", "e", "l", "i", "n", "e", " ", "/", " ", "M", "a", "x", "i", "m", "u", "m", " ", "I", "O", "P", "S", " ", "(", "1", "6", " ", "K", "i", "B", " ", "I", "/", "O", ")">>>>

\* pages that vary the bandwidth cell of the network table and the IOPS cell of
\* the EBS table of one entity
BandwidthPages ==
    {<<[thead |-> <<>>, body |-> <<>>],
       [thead |-> FamilyHead, body |-> <<>>],
       [thead |-> PerformanceHead, body |-> <<<<<<"m", "5", ".", "l", "a", "r", "g", "e">>, <<"8">>>>>>],
       [thead |-> BandwidthHead, body |-> <<<<<<"m", "5", ".", "l", "a", "r", "g", "e">>, bandwidth>>>>],
       [thead |-> IopsHead, body |-> <<<<<<"m", "5", ".", "l", "a", "r", "g", "e">>, iops>>>>]>> :
        bandwidth \in BandwidthCells, iops \in BandwidthCells}

\* the table at place i of a page (1: the list of families and types, which
\* carries a row of its own; 2 to 7: the six sections; from 8 on: one more table)
TableAt(i) ==
    LET row(key, cell) == <<<<key, cell>>>>
        m5 == <<"m", "5", ".", "l", "a", "r", "g", "e">>
    IN  CASE i = 1 -> [thead |-> PerformanceHead, body |-> row(<<"t", "3", ".", "l", "a", "r", "g", "e">>, <<"4">>)]
          [] i = 2 -> [thead |-> FamilyHead, body |-> row(<<"M", "5">>, <<"N", "i", "t", "r", "o", " ", "v", "2">>)]
          [] i = 4 -> [thead |-> NetworkHead, body |-> row(m5, <<"2">>)]
          [] i = 5 -> [thead |-> IopsHead, body |-> row(m5, <<"1", "0", "0">>)]
          [] OTHER -> [thead |-> PerformanceHead, body |-> row(m5, <<"8">>)]

\* the number of tables of a page
MaxTables == 8

\* pages that vary the number of tables
CountPages == {[i \in 1..n |-> TableAt(i)] : n \in 0..MaxTables}

CategoryPages == JoinPages \cup LookupPages \cup BandwidthPages \cup CountPages

CategoryInit ==
    /\ arg \in CategoryPages
    /\ res = <<>>
    /\ fn = "input"
    /\ MainIdle

\* raw_data = parse_category_page(html); process_category_data(raw_data, category)
CallProcessCategoryData ==
    /\ fn = "input"
    /\ \E category \in {Category.general_purpose, Category.hpc} :
          res' = [raw_data |-> parse_category_page(arg),
                  category |-> category,
                  instances |-> process_category_data(parse_category_page(arg), category)]
    /\ fn' = "process_category_data"
    /\ UNCHANGED <<arg, mvars>>

CategoryNext == CallProcessCategoryData

SpecCategory == CategoryInit /\ [][CategoryNext]_vars

(***************************************************************************)
(* Properties of the coercers and cleaners                                 *)
(***************************************************************************)

SlashAt(s) == Min(Positions(s, "/"))

LeftHalf(s) == Strip(SubSeq(s, 1, SlashAt(s) - 1))

RightHalf(s) == Strip(From(s, SlashAt(s) + 1))

\* a two-part "A / B" text without the unit keyword whose halves are numbers
TwoPartNumeric(s) ==
    /\ Cardinality(Positions(s, "/")) = 1
    /\ ~Contains(s, Gigabit)
    /\ PyFloatOk(LeftHalf(s))
    /\ PyFloatOk(RightHalf(s))

\* C6: for every text, parse_bandwidth returns a {baseline, burst} record only
\* for a two-part "A / B" text without "Gigabit" whose halves both parse as
\* numbers, and the record holds exactly those numbers; every other text is
\* returned unchanged, never as a record with zero or null in it.
BandwidthCoercion ==
    fn = "parse_bandwidth" =>
        IF TwoPartNumeric(arg.s)
        THEN res = BandwidthSpec(PyFloat(LeftHalf(arg.s)), PyFloat(RightHalf(arg.s)))
        ELSE res = BandwidthText(arg.s)

\* "0.75 / 10.0" has been coerced to {baseline: 0.75, burst: 10.0}
BandwidthWitness ==
    /\ fn = "parse_bandwidth"
    /\ arg.s = <<"0", ".", "7", "5", " ", "/", " ", "1", "0", ".", "0">>
    /\ res = BandwidthSpec(Norm(75, 2), Norm(10, 0))

\* the lengths of the qualifier word with which the pattern matches the whole of s
ExactWordLengths(s) ==
    {j \in WordLengths(s) : QualifierTailEnd(s, ParenAt(s) + 1 + j) = Len(s) + 1}

\* the whole of s has the shape: optional "Up to", an integer, and a
\* parenthesized qualifier word ending in "limit"
ExactLimitShape(s) == ExactWordLengths(s) # {}

ShapeNumber(s) == NatOf(SubSeq(s, NumberStart(s), RunEnd(s, NumberStart(s), Digits) - 1))

ShapeWord(s) == SubSeq(s, ParenAt(s) + 1, ParenAt(s) + Max(ExactWordLengths(s)))

\* C7: parse_volume_limit returns {limit, limitType} exactly when the whole
\* text has the shape "[Up to ]N (Word[-based] limit)", with limit N and
\* limitType the lower-cased word; every other text, also one with extra text
\* before or after the shape, is returned unchanged.
VolumeLimitExactShape ==
    fn = "parse_volume_limit" =>
        IF ExactLimitShape(arg.s)
        THEN res = VolumeLimitSpec(ShapeNumber(arg.s), Lower(ShapeWord(arg.s)))
        ELSE res = VolumeLimitValue(arg)

\* a text of the exact shape is coerced: the part of C7 the code satisfies
VolumeLimitOfExactShape ==
    (fn = "parse_volume_limit" /\ ExactLimitShape(arg.s)) =>
        res = VolumeLimitSpec(ShapeNumber(arg.s), Lower(ShapeWord(arg.s)))

\* some suffix of t is a size word
EndsInSizeWord(t) == \E p \in 1..Len(t) : IsSizeGroup(From(t, p))

\* t ends in a size word followed by footnote digits
EndsInFootnote(t) ==
    TrailingDigits(t) > 0 /\ EndsInSizeWord(DropLast(t, TrailingDigits(t)))

\* C8: clean_instance_type is idempotent; a token that ends in a size word
\* followed by footnote digits loses exactly those digits, and any other
\* token is returned unchanged.
CleanTypeIdempotent ==
    /\ fn = "cleaned" =>
           res = IF EndsInFootnote(arg) THEN DropLast(arg, TrailingDigits(arg)) ELSE arg
    /\ fn = "cleaned_twice" => res = clean_instance_type(arg)

\* "16xlarge1" has been cleaned twice, giving "16xlarge"
CleanTypeWitness ==
    /\ fn = "cleaned_twice"
    /\ arg = <<"1", "6", "x", "l", "a", "r", "g", "e", "1">>
    /\ res = <<"1", "6", "x", "l", "a", "r", "g", "e">>

\* the trimmed non-empty segments of a text split at "|"
Segments(s) ==
    LET parts == Split(s, "|")
        kept == {i \in 1..Len(parts) : Strip(parts[i]) # <<>>}
        Nth(n) == CHOOSE i \in kept : Cardinality({j \in kept : j < i}) = n - 1
    IN  [n \in 1..Cardinality(kept) |-> Strip(parts[Nth(n)])]

\* C20: parse_basic_value decides by the first rule that matches: "yes"/"no"
\* in any letter case gives a boolean; otherwise a text with "|" gives the list
\* of its trimmed non-empty segments, whatever they spell; otherwise a text that
\* parses as a number gives a float when it has a decimal point and an integer
\* when it has none; otherwise the text is returned unchanged.
BasicValueRules ==
    fn = "parse_basic_value" =>
        res = IF Lower(arg) = <<"y", "e", "s">> THEN VBool(TRUE)
              ELSE IF Lower(arg) = <<"n", "o">> THEN VBool(FALSE)
              ELSE IF "|" \in Range(arg) THEN VList(Segments(arg))
              ELSE IF PyFloatOk(arg) /\ "." \in Range(arg) THEN VFloat(PyFloat(arg))
              ELSE IF PyFloatOk(arg) THEN VInt(PyInt(arg))
              ELSE VStr(arg)

\* a list whose segments spell a boolean and a number
BasicValueWitness ==
    /\ fn = "parse_basic_value"
    /\ arg = <<"Y", "e", "s", "|", "2", ".", "5">>
    /\ res = VList(<<<<"Y", "e", "s">>, <<"2", ".", "5">>>>)

\* a plain numeral: an optional sign, then digits with at most one decimal
\* point among them (blanks around the numeral are not counted against it)
PlainNumeral(s) ==
    LET t == Strip(s)
        u == IF t # <<>> /\ t[1] \in {"+", "-"} THEN Tail(t) ELSE t
    IN  /\ \A i \in 1..Len(u) : IsDigit(u[i]) \/ u[i] = "."
        /\ Cardinality({i \in 1..Len(u) : u[i] = "."}) <= 1
        /\ \E i \in 1..Len(u) : IsDigit(u[i])

\* C21: parse_basic_value returns a number only for a plain numeral; a text
\* with any other character among its digits is returned unchanged as a string.
NumbersOnlyFromPlainNumerals ==
    fn = "parse_basic_value" =>
        IF PlainNumeral(arg) THEN res.k \in {"int", "float"} ELSE res.k \notin {"int", "float"}

\* what the code does: a single underscore between two digits is read as part
\* of the numeral; a comma never is
NumbersFromPlainOrUnderscoredNumerals ==
    fn = "parse_basic_value" =>
        /\ PlainNumeral(arg) => res.k \in {"int", "float"}
        /\ res.k \in {"int", "float"} => PlainNumeral(SelectSeq(arg, LAMBDA c : c # "_"))
        /\ "," \in Range(arg) => res.k \notin {"int", "float"}

(***************************************************************************)
(* Properties of the table extractors                                      *)
(***************************************************************************)

\* how many cells of a row are populated: their cleaned text is not empty
Populated(cells) == Cardinality({i \in 1..Len(cells) : clean_text(cells[i]) # <<>>})

\* C9: in every table extractor, a body row that is empty or has fewer than
\* two populated cells produces no RawRow.
SparseRowsDropped ==
    fn \in {"parse_table", "parse_rds_table", "parse_elasticache_table"} =>
        \A r \in 1..Len(arg.body) :
            Populated(arg.body[r]) < 2 => r \notin Range(res.from)

\* what parse_table does drop: a row without cells, or with one cell only
OneCellRowsDropped ==
    fn = "parse_table" =>
        \A r \in 1..Len(arg.body) : Len(arg.body[r]) < 2 => r \notin Range(res.from)

EndsInDigit(e) == e # <<>> /\ IsDigit(e[Len(e)])

\* e ends in a parenthetical qualifier: "(", characters other than ")", ")"
EndsInParenthetical(e) ==
    /\ e # <<>>
    /\ e[Len(e)] = ")"
    /\ \E p \in 1..(Len(e) - 1) : e[p] = "(" /\ \A i \in (p + 1)..(Len(e) - 1) : e[i] # ")"

\* the cell of the model is a cell of the operating-system column
IsOperatingSystemCell == to_snake_case(clean_text(arg.header)) = K.supported_operating_systems

\* C23: clean_operating_system returns a list with one element per input
\* element, no element of which ends in footnote digits or in a parenthetical
\* qualifier; the operating-system cell parse_table stores is never empty when
\* the cell has text.
OperatingSystemsCleaned ==
    /\ fn = "clean_operating_system" =>
          /\ res.out.k = "list"
          /\ Len(res.out.l) = (IF res.input.k = "str" THEN 1 ELSE Len(res.input.l))
          /\ \A i \in 1..Len(res.out.l) :
                ~EndsInDigit(res.out.l[i]) /\ ~EndsInParenthetical(res.out.l[i])
    /\ (fn = "parse_table" /\ IsOperatingSystemCell /\ clean_text(arg.text) # <<>>) =>
          res.out.l # <<>>

\* what the code does: one element per input element, and an element that ends
\* in neither footnote digits nor a parenthetical unless the input had more than
\* one of them at its end; a cell read as a boolean, as a number or as a list
\* without segments is stored as the empty list
OperatingSystemsListShape ==
    /\ fn = "clean_operating_system" =>
          /\ res.out.k = "list"
          /\ Len(res.out.l) = (IF res.input.k = "str" THEN 1 ELSE Len(res.input.l))
    /\ (fn = "parse_table" /\ IsOperatingSystemCell) =>
          /\ res.out.k = "list"
          /\ res.out.l = <<>> <=>
                \/ parse_basic_value(clean_text(arg.text)).k \notin {"str", "list"}
                \/ parse_basic_value(clean_text(arg.text)) = VList(<<>>)

\* s in lower case with every character of seps replaced by an underscore,
\* every run of underscores collapsed to one, and no underscore at either end
Underscored(s, seps) ==
    LET r == [i \in 1..Len(s) |-> IF s[i] \in seps THEN "_" ELSE LowerChar(s[i])]
        first == {i \in 1..Len(r) : r[i] # "_"}
        kept == {i \in 1..Len(r) :
                    /\ first # {} /\ i >= Min(first) /\ i <= Max(first)
                    /\ ~(r[i] = "_" /\ r[i - 1] = "_")}
        Nth(n) == CHOOSE i \in kept : Cardinality({j \in kept : j < i}) = n - 1
    IN  [n \in 1..Cardinality(kept) |-> r[Nth(n)]]

\* C24: to_snake_case returns the header in lower case with every separator
\* ('.', '(', ')', '/', '-', blanks) replaced by an underscore and the runs of
\* underscores collapsed, so words separated only by '.' or a parenthesis stay
\* separated by an underscore.
SeparatorsBecomeUnderscores ==
    fn = "to_snake_case" => res = Underscored(arg, {".", "(", ")", "/", "-", " "})

\* what the code does: '.', '(' and ')' are deleted, and only '/', '-' and
\* blanks become underscores
DotsAndParenthesesDeleted ==
    fn = "to_snake_case" =>
        res = Underscored(SelectSeq(arg, LAMBDA c : c \notin {".", "(", ")"}), {"/", "-", " "})

\* the header of the cell of the model, as a key
CellHeader == to_snake_case(clean_text(arg.header))

\* C25: whatever the text of a cell under the entity-key, hypervisor or
\* operating-system header, parse_table stores the entity key and the hypervisor
\* as strings with their footnote markers removed and the operating systems as
\* a list of strings.
SpecificCleanupReplacesCoercion ==
    fn = "parse_table" =>
        /\ CellHeader = K.instance_type =>
              res.out = VStr(clean_instance_type(clean_text(arg.text)))
        /\ CellHeader = K.hypervisor =>
              res.out = VStr(clean_hypervisor(clean_text(arg.text)))
        /\ CellHeader = K.supported_operating_systems => res.out.k = "list"

\* what the code does: the generic coercion comes first, and the cleanup of the
\* entity key and of the hypervisor is applied only to a value that is still a
\* string
SpecificCleanupFollowsCoercion ==
    fn = "parse_table" =>
        LET value == parse_basic_value(clean_text(arg.text))
        IN  /\ CellHeader = K.instance_type =>
                  res.out = IF value.k = "str" THEN VStr(clean_instance_type(value.s)) ELSE value
            /\ CellHeader = K.hypervisor =>
                  res.out = IF value.k = "str" THEN VStr(clean_hypervisor(value.s)) ELSE value
            /\ CellHeader = K.supported_operating_systems => res.out.k = "list"

(***************************************************************************)
(* Properties of the generator run                                         *)
(***************************************************************************)

\* the derivation returns a non-empty text, without failing, the same on a second call
FamilyDerived(extract(_), key) ==
    /\ ~extract(key).raised
    /\ extract(key).v # <<>>
    /\ extract(key) = extract(key)

\* C1: for every entity key the Record Builder has emitted in any of the three
\* domains, the domain's family derivation returns a non-empty string without
\* failing, and returns the same string when applied to the key again.
EmittedKeysHaveFamily ==
    /\ \A i \in 1..Len(all_ec2_instances) :
          FamilyDerived(extract_family_from_instance_type, all_ec2_instances[i].key)
    /\ \A i \in 1..Len(all_rds_instances) :
          FamilyDerived(extract_rds_family, all_rds_instances[i].key)
    /\ \A i \in 1..Len(all_elasticache_nodes) :
          FamilyDerived(extract_elasticache_family, all_elasticache_nodes[i].key)

\* a run that emitted keys in all three domains, one of them from a footnoted cell
EmittedKeysWitness ==
    /\ pc = "done"
    /\ \E i \in 1..Len(all_ec2_instances) : all_ec2_instances[i].key = <<"m", "5", ".", "l", "a", "r", "g", "e">>
    /\ all_rds_instances # <<>>
    /\ all_elasticache_nodes # <<>>

\* the entity keys of all the family files of a directory
GroupedKeys(families, list) == UNION {Range(families[i].val[list]) : i \in 1..Len(families)}

\* the family files and the manifest of a domain name the same entities and families
GroupsMatchManifest(domain, list, manifestList) ==
    <<domain, "info">> \in disk.written =>
        /\ GroupedKeys(disk[domain].families, list) = Range(disk[domain].info[manifestList])
        /\ Range(DictKeys(disk[domain].families)) = Range(disk[domain].info.families)
        /\ \A i \in 1..Len(disk[domain].families) :
              Range(disk[domain].families[i].val[list]) # {}

\* C2: in every domain, once the manifest is written, the union of the entity
\* lists of the family groups equals the manifest's entity set (no orphan, no
\* phantom member), and the manifest's families are exactly the groups.
FamilyGroupsCoverManifest ==
    /\ GroupsMatchManifest("ec2", "instanceTypes", "instances")
    /\ GroupsMatchManifest("rds", "instanceClasses", "instances")
    /\ GroupsMatchManifest("elasticache", "nodeTypes", "nodeTypes")

\* all three manifests are written and some family groups more than one entity
FamilyGroupsWitness ==
    /\ {<<"ec2", "info">>, <<"rds", "info">>, <<"elasticache", "info">>} \subseteq disk.written
    /\ \E i \in 1..Len(disk.ec2.families) : Len(disk.ec2.families[i].val.instanceTypes) > 1
    /\ disk.rds.families # <<>>
    /\ disk.elasticache.families # <<>>

\* ascending, and so without a repeated entry
Ascending(list) == \A i \in 1..(Len(list) - 1) : StrLess(list[i], list[i + 1])

\* C3: in the manifest of each domain, the family list, the entity list and the
\* category list are each in ascending lexicographic order without duplicates.
ManifestListsSorted ==
    /\ <<"ec2", "info">> \in disk.written =>
          /\ Ascending(disk.ec2.info.families)
          /\ Ascending(disk.ec2.info.instances)
          /\ Ascending(disk.ec2.info.categories)
    /\ <<"rds", "info">> \in disk.written =>
          /\ Ascending(disk.rds.info.families)
          /\ Ascending(disk.rds.info.instances)
          /\ Ascending(disk.rds.info.categories)
    /\ <<"elasticache", "info">> \in disk.written =>
          /\ Ascending(disk.elasticache.info.families)
          /\ Ascending(disk.elasticache.info.nodeTypes)
          /\ Ascending(disk.elasticache.info.categories)

\* the family and entity lists of the manifests are in ascending order
ManifestKeyListsSorted ==
    /\ <<"ec2", "info">> \in disk.written =>
          Ascending(disk.ec2.info.families) /\ Ascending(disk.ec2.info.instances)
    /\ <<"rds", "info">> \in disk.written =>
          Ascending(disk.rds.info.families) /\ Ascending(disk.rds.info.instances)
    /\ <<"elasticache", "info">> \in disk.written =>
          Ascending(disk.elasticache.info.families) /\ Ascending(disk.elasticache.info.nodeTypes)

\* C10: the family of every record built in any domain is the prefix rule
\* applied to the record's own key, never the spelling of a source table.
FamilyIsPrefixOfKey ==
    /\ \A i \in 1..Len(all_ec2_instances) :
          Return(all_ec2_instances[i].val.family)
              = extract_family_from_instance_type(all_ec2_instances[i].key)
    /\ \A i \in 1..Len(all_rds_instances) :
          Return(all_rds_instances[i].val.family)
              = extract_rds_family(all_rds_instances[i].key)
    /\ \A i \in 1..Len(all_elasticache_nodes) :
          Return(all_elasticache_nodes[i].val.family)
              = extract_elasticache_family(all_elasticache_nodes[i].key)

\* in the database and cache domains the family is the prefix rule of the key
ServiceFamilyIsPrefixOfKey ==
    /\ \A i \in 1..Len(all_rds_instances) :
          Return(all_rds_instances[i].val.family)
              = extract_rds_family(all_rds_instances[i].key)
    /\ \A i \in 1..Len(all_elasticache_nodes) :
          Return(all_elasticache_nodes[i].val.family)
              = extract_elasticache_family(all_elasticache_nodes[i].key)

\* the records of a dict that have the same family have the same category
SameFamilySameCategory(d) ==
    \A i, j \in 1..Len(d) : d[i].val.family = d[j].val.family => d[i].val.category = d[j].val.category

\* the category of every family group is the category of each of its members
GroupCategoryIsMembers(families, d, list) ==
    \A k \in 1..Len(families) : \A i \in 1..Len(d) :
        d[i].key \in Range(families[k].val[list]) => d[i].val.category = families[k].val.category

\* C11: in every domain the category is a function of the family: two records
\* of the same family have the same category, and a family group's category is
\* the category of each of its members, also after category pages are merged.
CategoryFollowsFamily ==
    /\ SameFamilySameCategory(all_ec2_instances)
    /\ SameFamilySameCategory(all_rds_instances)
    /\ SameFamilySameCategory(all_elasticache_nodes)
    /\ GroupCategoryIsMembers(ec2_families, all_ec2_instances, "instanceTypes")
    /\ GroupCategoryIsMembers(rds_families, all_rds_instances, "instanceClasses")
    /\ GroupCategoryIsMembers(elasticache_families, all_elasticache_nodes, "nodeTypes")

\* in the database and cache domains the category is a function of the family
ServiceCategoryFollowsFamily ==
    /\ SameFamilySameCategory(all_rds_instances)
    /\ SameFamilySameCategory(all_elasticache_nodes)
    /\ GroupCategoryIsMembers(rds_families, all_rds_instances, "instanceClasses")
    /\ GroupCategoryIsMembers(elasticache_families, all_elasticache_nodes, "nodeTypes")
    /\ \A i \in 1..Len(all_rds_instances) :
          all_rds_instances[i].val.category = determine_rds_category(all_rds_instances[i].val.family)
    /\ \A i \in 1..Len(all_elasticache_nodes) :
          all_elasticache_nodes[i].val.category
              = determine_elasticache_category(all_elasticache_nodes[i].val.family)

\* the family-level attributes a record or a family group carries
FamilyAttributes(r) ==
    <<r.hypervisor, r.processorArchitecture, r.metalAvailable, r.dedicatedHosts, r.spot,
      r.hibernation, r.operatingSystems>>

\* C12: in the merged compute dataset, two records of the same family carry
\* identical family-level attributes, and the family's FamilyData carries the
\* same values as each of its members.
FamilyAttributesAgree ==
    /\ \A i, j \in 1..Len(all_ec2_instances) :
          all_ec2_instances[i].val.family = all_ec2_instances[j].val.family =>
              FamilyAttributes(all_ec2_instances[i].val) = FamilyAttributes(all_ec2_instances[j].val)
    /\ \A k \in 1..Len(ec2_families) : \A i \in 1..Len(all_ec2_instances) :
          all_ec2_instances[i].key \in Range(ec2_families[k].val.instanceTypes) =>
              FamilyAttributes(all_ec2_instances[i].val) = FamilyAttributes(ec2_families[k].val)

\* the family groups whose member list holds the key
GroupsOf(families, list, key) == {k \in 1..Len(families) : key \in Range(families[k].val[list])}

\* the family groups of a domain, once built, partition its entities
FamilyGroupsPartition(d, families, list) ==
    families # <<>> =>
        /\ \A i \in 1..Len(d) :
              /\ Cardinality(GroupsOf(families, list, d[i].key)) = 1
              /\ \A k \in GroupsOf(families, list, d[i].key) :
                    families[k].key = d[i].val.family /\ families[k].val.family = d[i].val.family
        /\ \A k \in 1..Len(families) : families[k].val.category # <<>>

\* C15: in every domain the family groups partition the entity set: each key
\* is in the member list of exactly one group, the one named by the entity's
\* family field, and every group has a non-empty category.
FamilyGroupsArePartition ==
    /\ FamilyGroupsPartition(all_ec2_instances, ec2_families, "instanceTypes")
    /\ FamilyGroupsPartition(all_rds_instances, rds_families, "instanceClasses")
    /\ FamilyGroupsPartition(all_elasticache_nodes, elasticache_families, "nodeTypes")

\* every domain of the run has several family groups
FamilyPartitionWitness ==
    /\ Len(ec2_families) > 1
    /\ Len(rds_families) > 1
    /\ Len(elasticache_families) > 1

\* how often a text occurs in a list
Occurrences(list, x) == Cardinality({i \in 1..Len(list) : list[i] = x})

\* the keys of a dataset are distinct, and each occurs once in the member lists
\* of the family groups
KeysOnce(d, families, list) ==
    /\ \A i, j \in 1..Len(d) : d[i].key = d[j].key => i = j
    /\ families # <<>> =>
          \A i \in 1..Len(d) :
              Cardinality({m \in (1..Len(families)) \X (1..Len(d)) :
                              /\ m[2] <= Len(families[m[1]].val[list])
                              /\ families[m[1]].val[list][m[2]] = d[i].key}) = 1

\* C19: in every domain, also when a key occurs in several rows, tables or
\* pages of the input, the dataset holds exactly one record for the key, and
\* the key occurs exactly once in the manifest's entity list and exactly once
\* in the member list of its family group.
EntityKeysUnique ==
    /\ KeysOnce(all_ec2_instances, ec2_families, "instanceTypes")
    /\ KeysOnce(all_rds_instances, rds_families, "instanceClasses")
    /\ KeysOnce(all_elasticache_nodes, elasticache_families, "nodeTypes")
    /\ <<"ec2", "info">> \in disk.written =>
          \A i \in 1..Len(all_ec2_instances) :
              Occurrences(disk.ec2.info.instances, all_ec2_instances[i].key) = 1
    /\ <<"rds", "info">> \in disk.written =>
          \A i \in 1..Len(all_rds_instances) :
              Occurrences(disk.rds.info.instances, all_rds_instances[i].key) = 1
    /\ <<"elasticache", "info">> \in disk.written =>
          \A i \in 1..Len(all_elasticache_nodes) :
              Occurrences(disk.elasticache.info.nodeTypes, all_elasticache_nodes[i].key) = 1

\* a finished run in which m5.large was listed by two category pages (the later
\* page's record replaced the first) and db.m5.large by two rows
RepeatedKeysWitness ==
    /\ pc = "done"
    /\ \E i, j \in 1..Len(all_ec2_instances) :
          /\ all_ec2_instances[i].key = <<"m", "5", ".", "l", "a", "r", "g", "e">>
          /\ all_ec2_instances[i].val.category = Category.compute_optimized
          /\ all_ec2_instances[j].val.category = Category.general_purpose
    /\ \E i \in 1..Len(all_rds_instances) :
          /\ all_rds_instances[i].key = <<"d", "b", ".", "m", "5", ".", "l", "a", "r", "g", "e">>
          /\ all_rds_instances[i].val.vCPUs = 4

\* the files of a domain: its entity files, its family files and its manifest
FilesOf(domain) == {<<domain, "instances">>, <<domain, "families">>, <<domain, "info">>}

TypesFile == <<"types", "types">>

\* the files a failed fetch must find unwritten: those of its own domain, of
\* the later domains, and the type definitions
NotYetAt(stage) ==
    CASE stage = "ec2" -> FilesOf("ec2") \cup FilesOf("rds") \cup FilesOf("elasticache") \cup {TypesFile}
      [] stage = "rds" -> FilesOf("rds") \cup FilesOf("elasticache") \cup {TypesFile}
      [] stage = "elasticache" -> FilesOf("elasticache") \cup {TypesFile}
      [] OTHER -> {}

\* C17: when the fetch of a page of a domain fails, the run stops without a
\* retry, and no entity file, family file or manifest of that domain, no output
\* of a later domain and no type definitions are written in the run, whichever
\* category page of the compute domain it is.
FailedFetchEndsRun ==
    [][/\ FetchFails => /\ pc' = "failed"
                        /\ disk'.written \cap NotYetAt(pc) = {}
       /\ pc # "failed"]_vars

\* the fetch of a later category page failed, after records of an earlier page
\* were built: nothing is written
FailedFetchWitness ==
    /\ pc = "failed"
    /\ cat > 1
    /\ cat <= Len(EC2_CATEGORIES)
    /\ all_ec2_instances # <<>>
    /\ disk.written = {}

\* the steps of the compute, the database and the cache pipeline
Ec2Step == ScrapeCategory \/ GroupEc2 \/ WriteEc2InstanceFiles \/ WriteEc2FamilyFiles \/ WriteEc2InfoFile

RdsStep == ScrapeRds \/ GroupRds \/ WriteRdsInstanceFiles \/ WriteRdsFamilyFiles \/ WriteRdsInfoFile

ElasticacheStep ==
    \/ ScrapeElasticache
    \/ GroupElasticache
    \/ WriteElasticacheNodeFiles
    \/ WriteElasticacheFamilyFiles
    \/ WriteElasticacheInfoFile

\* C18: the three pipelines run strictly in sequence: no fetch, build or write
\* of a domain happens before the manifest of the previous domain is written,
\* and the type definitions are generated and written exactly once, after all
\* three manifests.
DomainsInSequence ==
    [][/\ Ec2Step => disk.written \cap (FilesOf("rds") \cup FilesOf("elasticache") \cup {TypesFile}) = {}
       /\ RdsStep => /\ <<"ec2", "info">> \in disk.written
                     /\ disk.written \cap (FilesOf("elasticache") \cup {TypesFile}) = {}
       /\ ElasticacheStep => /\ <<"rds", "info">> \in disk.written
                             /\ TypesFile \notin disk.written
       /\ (TypesFile \in disk'.written /\ disk'.types # disk.types) =>
             /\ {<<"ec2", "info">>, <<"rds", "info">>, <<"elasticache", "info">>} \subseteq disk.written
             /\ TypesFile \notin disk.written
       /\ TypesFile \in disk.written => (pc = "done" /\ pc' = "done")]_vars

\* a finished run with data in two domains
DomainsInSequenceWitness ==
    /\ pc = "done"
    /\ TypesFile \in disk.written
    /\ all_ec2_instances # <<>>
    /\ all_elasticache_nodes # <<>>

(***************************************************************************)
(* Properties of the schema emitter                                        *)
(***************************************************************************)

\* every union type of the document lists its members in ascending order
EnumsAscending(doc) == \A i \in 1..Len(doc) : Ascending(doc[i].lines)

\* C4: the type-definition document is a function of the records only: a
\* dataset holding the same records in another insertion order yields the
\* identical document, and every enumeration lists its members in ascending
\* lexicographic order.
TypesOrderIndependent ==
    /\ fn = "generate_typescript_types" => EnumsAscending(res)
    /\ fn = "generated_reordered" =>
          /\ res.second = res.first
          /\ EnumsAscending(res.second)

\* the second run had the records, and so the families, in another order, and
\* an enumeration has several members
TypesReorderedWitness ==
    /\ fn = "generated_reordered"
    /\ res.again.ec2 # arg.ec2
    /\ DictKeys(group_instances_by_family(res.again.ec2))
          # DictKeys(group_instances_by_family(arg.ec2))
    /\ res.again.rds # arg.rds
    /\ \E i \in 1..Len(res.second) : Len(res.second[i].lines) > 1

\* the members of the union type of that name
Enum(doc, name) == UNION {IF doc[i].name = name THEN Range(doc[i].lines) ELSE {} : i \in 1..Len(doc)}

\* the distinct texts a field takes in the records of a dict
Observed(d, field) == {d[i].val[field] : i \in 1..Len(d)}

\* the distinct non-empty texts of a loosely-typed field (a list counts by its entries)
ObservedValues(d, field) == UNION {ValuesOf(d[i].val[field]) : i \in 1..Len(d)}

\* C5: for every enumerable field, the members of the emitted enumeration are
\* exactly the distinct values the field takes in the records given to
\* generate_typescript_types.
EnumsAreObservedValues ==
    fn = "generate_typescript_types" =>
        /\ Enum(res, "EC2InstanceType") = Observed(arg.ec2, "instanceType")
        /\ Enum(res, "EC2InstanceFamily") = Observed(arg.ec2, "family")
        /\ Enum(res, "EC2Category") = Observed(arg.ec2, "category")
        /\ Enum(res, "EC2Hypervisor") = ObservedValues(arg.ec2, "hypervisor")
        /\ Enum(res, "EC2ProcessorArchitecture") = ObservedValues(arg.ec2, "processorArchitecture")
        /\ Enum(res, "EC2Processor") = ObservedValues(arg.ec2, "processor")
        /\ Enum(res, "EC2OperatingSystem") = ObservedValues(arg.ec2, "operatingSystems")
        /\ Enum(res, "EC2Accelerator") = ObservedValues(arg.ec2, "accelerators")
        /\ Enum(res, "RDSInstanceClass") = Observed(arg.rds, "instanceClass")
        /\ Enum(res, "RDSInstanceFamily") = Observed(arg.rds, "family")
        /\ Enum(res, "RDSCategory") = Observed(arg.rds, "category")
        /\ Enum(res, "ElastiCacheNodeType") = Observed(arg.elasticache, "nodeType")
        /\ Enum(res, "ElastiCacheFamily") = Observed(arg.elasticache, "family")
        /\ Enum(res, "ElastiCacheCategory") = Observed(arg.elasticache, "category")

\* the enumerations of entity keys and family names are the observed ones
KeyEnumsAreObservedValues ==
    fn = "generate_typescript_types" =>
        /\ Enum(res, "EC2InstanceType") = Observed(arg.ec2, "instanceType")
        /\ Enum(res, "EC2InstanceFamily") = Observed(arg.ec2, "family")
        /\ Enum(res, "RDSInstanceClass") = Observed(arg.rds, "instanceClass")
        /\ Enum(res, "RDSInstanceFamily") = Observed(arg.rds, "family")
        /\ Enum(res, "ElastiCacheNodeType") = Observed(arg.elasticache, "nodeType")
        /\ Enum(res, "ElastiCacheFamily") = Observed(arg.elasticache, "family")

\* no enumeration of a compute attribute has a member, whatever the records hold
AttributeEnumsEmpty ==
    fn = "generate_typescript_types" =>
        \A name \in {"EC2Hypervisor", "EC2ProcessorArchitecture", "EC2Processor",
                     "EC2OperatingSystem", "EC2Accelerator"} : Enum(res, name) = {}

(***************************************************************************)
(* Properties of the compute record builder                                *)
(***************************************************************************)

\* the entity keys a table of the page lists
KeysOf(rows) == {rows[i][K.instance_type] : i \in {j \in 1..Len(rows) : K.instance_type \in DOMAIN rows[j]}}

\* C13: for a category page, process_category_data produces exactly one
\* InstanceDetails per distinct entity key of the performance table, and none
\* for a key that occurs only in another table.
OneRecordPerPerformanceKey ==
    (fn = "process_category_data" /\ ~res.instances.raised) =>
        LET made == res.instances.v
            performance == KeysOf(res.raw_data.sections.performance_specifications)
            network == KeysOf(res.raw_data.sections.network_specifications)
        IN  /\ {VStr(made[i].key) : i \in 1..Len(made)} = performance
            /\ \A i, j \in 1..Len(made) : made[i].key = made[j].key => i = j
            /\ \A i \in 1..Len(made) : made[i].val.instanceType = made[i].key
            /\ \A key \in network \ performance : \A i \in 1..Len(made) : VStr(made[i].key) # key

\* the performance table lists a key twice and the network table a key of its own
OneRecordWitness ==
    /\ fn = "process_category_data"
    /\ ~res.instances.raised
    /\ Len(res.raw_data.sections.performance_specifications) = 2
    /\ Len(res.instances.v) = 1
    /\ KeysOf(res.raw_data.sections.network_specifications)
          \ KeysOf(res.raw_data.sections.performance_specifications) # {}

\* the records of keys the EBS table does not list
EbsMisses ==
    {i \in 1..Len(res.instances.v) :
        VStr(res.instances.v[i].key) \notin KeysOf(res.raw_data.sections.ebs_specifications)}

\* the records of keys the security table does not list
SecurityMisses ==
    {i \in 1..Len(res.instances.v) :
        VStr(res.instances.v[i].key) \notin KeysOf(res.raw_data.sections.security_specifications)}

\* the records of keys the instance-store table does not list
InstanceStoreMisses ==
    {i \in 1..Len(res.instances.v) :
        VStr(res.instances.v[i].key)
            \notin KeysOf(res.raw_data.sections.instance_store_specifications)}

\* the records of keys the network table does not list
NetworkMisses ==
    {i \in 1..Len(res.instances.v) :
        VStr(res.instances.v[i].key) \notin KeysOf(res.raw_data.sections.network_specifications)}

\* C14: a record whose key is absent from the network, EBS or security table
\* still has that capability group, filled with the default whose numeric
\* fields are zero, whose text fields are empty and whose flags are false.
JoinMissDefaultsAreZero ==
    (fn = "process_category_data" /\ ~res.instances.raised) =>
        /\ \A i \in NetworkMisses :
              res.instances.v[i].val.network
                  = NetworkSpec(BandwidthText(<<>>), FALSE, VBool(FALSE), FALSE, 0, 0, 0, FALSE)
        /\ \A i \in EbsMisses :
              res.instances.v[i].val.ebs
                  = EBSSpec(BandwidthText(<<>>), BandwidthText(<<>>), BandwidthText(<<>>), FALSE,
                            VolumeLimitValue(VStr(<<>>)))
        /\ \A i \in SecurityMisses :
              res.instances.v[i].val.security
                  = SecuritySpec(FALSE, VNone, FALSE, FALSE, FALSE, FALSE)

\* what the code substitutes on a join miss: the network counts default to one
JoinMissDefaultsOfCode ==
    (fn = "process_category_data" /\ ~res.instances.raised) =>
        /\ \A i \in NetworkMisses :
              res.instances.v[i].val.network
                  = NetworkSpec(BandwidthText(<<>>), FALSE, VBool(FALSE), FALSE, 1, 1, 1, FALSE)
        /\ \A i \in EbsMisses :
              res.instances.v[i].val.ebs
                  = EBSSpec(BandwidthText(<<>>), BandwidthText(<<>>), BandwidthText(<<>>), FALSE,
                            VolumeLimitValue(VStr(<<>>)))
        /\ \A i \in SecurityMisses :
              res.instances.v[i].val.security
                  = SecuritySpec(FALSE, VNone, FALSE, FALSE, FALSE, FALSE)
        /\ \A i \in InstanceStoreMisses :
              res.instances.v[i].val.instanceStore = NoInstanceStore

\* C16: for any cell texts, extraction and record building finish without
\* raising: a cell that does not match the expected form yields the cleaned
\* string or a null/default numeric, and the pipeline continues.
BuilderNeverRaises ==
    fn = "process_category_data" => ~res.instances.raised

\* the builder raises only on a memory cell that is no number or a card count
\* that is no integer (the keys of these pages all have a family part)
BuilderRaisesOnBadNumber ==
    fn = "process_category_data" =>
        (res.instances.raised <=>
            \/ \E i \in 1..Len(res.raw_data.sections.performance_specifications) :
                  ~IsNumber(res.raw_data.sections.performance_specifications[i][K.memory_gib])
            \/ \E i \in 1..Len(res.raw_data.sections.network_specifications) :
                  /\ K.network_cards \in DOMAIN res.raw_data.sections.network_specifications[i]
                  /\ ~IsNumber(res.raw_data.sections.network_specifications[i][K.network_cards]))

\* the family summary an InstanceDetails carries
SummaryOf(rec) ==
    FamilySummary(rec.hypervisor, rec.processorArchitecture, rec.metalAvailable,
                  rec.dedicatedHosts, rec.spot, rec.hibernation, rec.operatingSystems)

\* the rows of the family table, and among them the rows whose family name is
\* the name itself and the rows whose name is the name up to letter case
FamilyTableRows == RowsWith(res.raw_data.sections.instance_family_summary, K.instance_family)

ExactRows(name) ==
    {j \in 1..Len(FamilyTableRows) : FamilyTableRows[j][K.instance_family] = VStr(name)}

CaseRows(name) ==
    {j \in 1..Len(FamilyTableRows) :
        /\ IsStr(FamilyTableRows[j][K.instance_family])
        /\ Lower(FamilyTableRows[j][K.instance_family].s) = Lower(name)}

\* the last row of the family table that spells its family as row j does
LastSpelledAs(j) ==
    Max({i \in 1..Len(FamilyTableRows) :
            FamilyTableRows[i][K.instance_family] = FamilyTableRows[j][K.instance_family]})

\* C22: the family summary of a record is the one listed under the exact family
\* name when there is one; otherwise the one of the first family whose name is
\* the family name up to letter case; otherwise the summary with empty texts,
\* false flags and an empty operating-system list.
FamilyLookupOrder ==
    (fn = "process_category_data" /\ ~res.instances.raised) =>
        \A i \in 1..Len(res.instances.v) :
            LET rec == res.instances.v[i].val
                name == extract_family_from_instance_type(res.instances.v[i].key).v
            IN  IF ExactRows(name) # {}
                THEN /\ SummaryOf(rec) = build_family_summary(FamilyTableRows[Max(ExactRows(name))])
                     /\ rec.family = name
                ELSE IF CaseRows(name) # {}
                THEN /\ SummaryOf(rec)
                            = build_family_summary(FamilyTableRows[LastSpelledAs(Min(CaseRows(name)))])
                     /\ VStr(rec.family) = FamilyTableRows[Min(CaseRows(name))][K.instance_family]
                ELSE /\ SummaryOf(rec)
                            = FamilySummary(VStr(<<>>), VStr(<<>>), FALSE, FALSE, FALSE, FALSE, VList(<<>>))
                     /\ rec.family = name

\* a family table that lists the lower-case spelling before the exact one, a
\* record that takes the exact one, and a record of a family the table lacks
FamilyLookupWitness ==
    /\ fn = "process_category_data"
    /\ ~res.instances.raised
    /\ Len(res.instances.v) = 2
    /\ ExactRows(<<"M", "5">>) = {2}
    /\ CaseRows(<<"M", "5">>) = {1, 2}
    /\ res.instances.v[1].val.hypervisor = VStr(<<"N", "i", "t", "r", "o", " ", "v", "2">>)
    /\ res.instances.v[2].val.hypervisor = VStr(<<>>)

\* a record that takes the summary of the family spelled in lower case
FamilyLookupCaseWitness ==
    /\ fn = "process_category_data"
    /\ ~res.instances.raised
    /\ \E i \in 1..Len(res.instances.v) :
          /\ res.instances.v[i].val.family = <<"m", "5">>
          /\ res.instances.v[i].val.hypervisor = VStr(<<"X", "e", "n">>)

\* the text of the bandwidth cell and of the IOPS cell of the page, cleaned
BandwidthCell == clean_text(arg[4].body[1][2])

IopsCell == clean_text(arg[5].body[1][2])

\* the {baseline, burst} record of the numbers written in a cell, or the cell
\* text itself when it is not one number or two numbers around a "/"
NumbersOrText(cell) ==
    IF TwoPartNumeric(cell)
    THEN BandwidthSpec(PyFloat(LeftHalf(cell)), PyFloat(RightHalf(cell)))
    ELSE IF PyFloatOk(cell) THEN BandwidthSpec(PyFloat(cell), NoneNum)
    ELSE BandwidthText(cell)

\* C26: the bandwidth and IOPS fields of a record are the {baseline, burst}
\* record of the numbers written in the cell, or the cleaned cell text
\* unchanged; a cell that is not numeric is never stored as a record.
BandwidthCellsKept ==
    (fn = "process_category_data" /\ arg \in BandwidthPages /\ ~res.instances.raised) =>
        /\ res.instances.v[1].val.network.bandwidthGbps = NumbersOrText(BandwidthCell)
        /\ res.instances.v[1].val.ebs.iops = NumbersOrText(IopsCell)

\* what the code stores for a cell: a cell read as a boolean becomes the record
\* {1 or 0, null}, a cell with "|" the all-null record
StoredForCell(cell) ==
    IF Lower(cell) = <<"y", "e", "s">> THEN BandwidthSpec(Norm(1, 0), NoneNum)
    ELSE IF Lower(cell) = <<"n", "o">> THEN BandwidthSpec(Norm(0, 0), NoneNum)
    ELSE IF "|" \in Range(cell) THEN BandwidthSpec(NoneNum, NoneNum)
    ELSE NumbersOrText(cell)

BandwidthCellsCoercedFirst ==
    (fn = "process_category_data" /\ arg \in BandwidthPages) =>
        /\ ~res.instances.raised
        /\ res.instances.v[1].val.network.bandwidthGbps = StoredForCell(BandwidthCell)
        /\ res.instances.v[1].val.ebs.iops = StoredForCell(IopsCell)

\* the number of tables parse_category_page has a place for: the list of
\* families and types, and the six sections
ExpectedTables == Cardinality(DOMAIN SectionIndex) + 1

\* C27: parse_category_page gives table i (1 to 6) its fixed role and never uses
\* table 0, and it returns data only for a page with exactly the expected
\* number of tables: no role lacks its table and no further table is carried
\* along.
TableCountEnforced ==
    fn = "process_category_data" =>
        /\ \A name \in DOMAIN SectionIndex :
              SectionIndex[name] + 1 <= Len(arg) =>
                  res.raw_data.sections[name] = parse_table(arg[SectionIndex[name] + 1])
        /\ Len(arg) = ExpectedTables
        /\ res.raw_data.extra = {}

\* what the code does: the roles are fixed by place and table 0 is skipped, but
\* a page with fewer tables yields data without the later sections, and a page
\* with more tables yields data that carries the further tables along
TableRolesByPlace ==
    fn = "process_category_data" =>
        /\ \A name \in DOMAIN SectionIndex :
              res.raw_data.sections[name]
                  = IF SectionIndex[name] + 1 <= Len(arg)
                    THEN parse_table(arg[SectionIndex[name] + 1]) ELSE <<>>
        /\ res.raw_data.extra = {i \in 7..(Len(arg) - 1) : parse_table(arg[i + 1]) # <<>>}
        /\ Len(arg) > 0 =>
              parse_category_page(<<[thead |-> <<>>, body |-> <<>>]>> \o Tail(arg)) = res.raw_data

\* a page with one table too many has been read, and its last table is in the data
ExtraTableCarriedWitness ==
    /\ fn = "process_category_data"
    /\ Len(arg) = ExpectedTables + 1
    /\ res.raw_data.extra = {7}
    /\ ~res.instances.raised

====
